---------------------------- MODULE Spec2Model ----------------------------
(***************************************************************************)
(* Model of the header side of the grok JPEG 2000 decompressor:            *)
(* CodeStreamDecompress marker handlers (QCD/QCC, COD/COC), the main       *)
(* header marker loop with read_unk, and parseTileHeaderMarkers.           *)
(*                                                                         *)
(* The code stream is modelled as lazily revealed input: every read of the *)
(* stream is an existential choice over what the next bytes are, which for *)
(* a single forward pass is the same as fixing the stream beforehand.      *)
(***************************************************************************)
EXTENDS Integers, Sequences, FiniteSets, TLC

(***************************************************************************)
(* Bounds of the model.                                                    *)
(***************************************************************************)
\* number of image components (SIZ Csiz)
NumComps == 2
\* number of tiles of the tile grid
NumTiles == 1
\* scaled-down GRK_J2K_MAXBANDS (3 * GRK_J2K_MAXRLVLS - 2 in the code base)
GRK_J2K_MAXBANDS == 4
\* longest SPqcd/SPqcc body (bytes after the Sqcd/Sqcc byte) in the marker menu
MaxQBody == 5
\* size of the precinct exponent arrays of the model (GRK_J2K_MAXRLVLS scaled down)
MaxRes == 2

Comps == 0 .. (NumComps - 1)
Tiles == 0 .. (NumTiles - 1)
Bands == 0 .. (GRK_J2K_MAXBANDS - 1)

(***************************************************************************)
(* Quantization styles (Sqcd & 0x1f).                                      *)
(***************************************************************************)
J2K_CCP_QNTSTY_NOQNT == 0
J2K_CCP_QNTSTY_SIQNT == 1
J2K_CCP_QNTSTY_SEQNT == 2

Min(a, b) == IF a < b THEN a ELSE b
Max(a, b) == IF a < b THEN b ELSE a

(***************************************************************************)
(* Coding parameters.                                                      *)
(***************************************************************************)
ZeroStep == [expn |-> 0, mant |-> 0]

\* TileComponentCodingParams after construction: every field zero
InitTccp ==
  [ quantizationMarkerSet |-> FALSE,
    fromQCC               |-> FALSE,
    fromTileHeader        |-> FALSE,
    qntsty                |-> 0,
    numgbits              |-> 0,
    numStepSizes          |-> 0,
    stepsizes             |-> [b \in Bands |-> ZeroStep],
    csty                  |-> 0,
    numresolutions        |-> 0,
    cblkw                 |-> 0,
    cblkh                 |-> 0,
    cblk_sty              |-> 0,
    qmfbid                |-> 0,
    prc                   |-> [i \in 0 .. (MaxRes - 1) |-> <<0, 0>>] ]

\* TileCodingParams after construction
InitTcp ==
  [ tccps                 |-> [c \in Comps |-> InitTccp],
    main_qcd_qntsty       |-> 0,
    main_qcd_numStepSizes |-> 0,
    csty                  |-> 0,
    prg                   |-> 0,
    numlayers             |-> 0,
    mct                   |-> 0,
    cod                   |-> FALSE,
    m_compressedTileData  |-> FALSE ]

\* the quantization part of a TCCP: what QCD/QCC bind
Quant(t) ==
  [ quantizationMarkerSet |-> t.quantizationMarkerSet,
    fromQCC               |-> t.fromQCC,
    fromTileHeader        |-> t.fromTileHeader,
    qntsty                |-> t.qntsty,
    numgbits              |-> t.numgbits,
    numStepSizes          |-> t.numStepSizes,
    stepsizes             |-> t.stepsizes ]

(***************************************************************************)
(* read_SQcd_SQcc                                                          *)
(***************************************************************************)
\* ScopeIgnore with the tile-QCC test of the tile header branch left out
ScopeIgnore_NoTileQcc(tccp, fromQCC, fromTileHeader) ==
  LET mainQCD          == ~fromQCC /\ ~fromTileHeader
      tileHeaderQCC    == fromQCC /\ fromTileHeader
      setMainQCD       == ~tccp.fromQCC /\ ~tccp.fromTileHeader
      setMainQCC       == tccp.fromQCC /\ ~tccp.fromTileHeader
      setTileHeaderQCD == ~tccp.fromQCC /\ tccp.fromTileHeader
  IN  /\ tccp.quantizationMarkerSet
      /\ IF ~fromTileHeader
           THEN setMainQCC \/ (mainQCD /\ setMainQCD)
           ELSE setTileHeaderQCD /\ ~tileHeaderQCC

\* the scoping rules: TRUE when the incoming marker is ignored
ScopeIgnore(tccp, fromQCC, fromTileHeader) ==
  LET mainQCD          == ~fromQCC /\ ~fromTileHeader
      tileHeaderQCC    == fromQCC /\ fromTileHeader
      setMainQCD       == ~tccp.fromQCC /\ ~tccp.fromTileHeader
      setMainQCC       == tccp.fromQCC /\ ~tccp.fromTileHeader
      setTileHeaderQCD == ~tccp.fromQCC /\ tccp.fromTileHeader
      setTileHeaderQCC == tccp.fromQCC /\ tccp.fromTileHeader
  IN  /\ tccp.quantizationMarkerSet
      /\ IF ~fromTileHeader
           THEN setMainQCC \/ (mainQCD /\ setMainQCD)
           ELSE setTileHeaderQCC \/ (setTileHeaderQCD /\ ~tileHeaderQCC)

\* number of step sizes a bound marker of style qntsty and body size hs carries
NumStepSizesOf(qntsty, hs) ==
  IF qntsty = J2K_CCP_QNTSTY_SIQNT THEN 1
  ELSE IF qntsty = J2K_CCP_QNTSTY_NOQNT THEN hs % 256
  ELSE (hs \div 2) % 256

\* SPqcx_i of band b: one byte (NOQNT) or two big-endian bytes
StepOf(qntsty, data, b) ==
  IF qntsty = J2K_CCP_QNTSTY_NOQNT
    THEN [expn |-> data[2 + b] \div 8, mant |-> 0]
    ELSE LET tmp == data[2 + 2 * b] * 256 + data[3 + 2 * b]
         IN  [expn |-> tmp \div 2048, mant |-> tmp % 2048]

\* scalar derived: the other step sizes computed from band 0
DerivedSteps(st) ==
  [b \in Bands |->
     IF b = 0 THEN st[0]
     ELSE LET bandDividedBy3 == (b - 1) \div 3
          IN  [expn |-> IF st[0].expn > bandDividedBy3
                          THEN st[0].expn - bandDividedBy3 ELSE 0,
               mant |-> st[0].mant]]

\* the TCCP once style, guard bits and number of step sizes are taken from
\* the marker, unless the marker is ignored
BindQuant(tccp, ignore, fromQCC, fromTileHeader, tmp, hs1) ==
  IF ignore THEN tccp
  ELSE [tccp EXCEPT !.quantizationMarkerSet = TRUE,
                    !.fromQCC = fromQCC,
                    !.fromTileHeader = fromTileHeader,
                    !.qntsty = tmp % 32,
                    !.numgbits = tmp \div 32,
                    !.numStepSizes = NumStepSizesOf(tmp % 32, hs1)]

\* the step sizes once the SPqcx bytes are read: kept when the marker is
\* ignored, else the first numStepSizes bands (at most GRK_J2K_MAXBANDS) are
\* written and, for scalar derived, the others computed
ReadSteps(tccp1, ignore, qntsty, data) ==
  IF ignore THEN tccp1.stepsizes
  ELSE IF tccp1.qntsty = J2K_CCP_QNTSTY_SIQNT
    THEN DerivedSteps([b \in Bands |->
                         IF b < tccp1.numStepSizes THEN StepOf(qntsty, data, b)
                         ELSE tccp1.stepsizes[b]])
  ELSE [b \in Bands |->
          IF b < tccp1.numStepSizes THEN StepOf(qntsty, data, b)
          ELSE tccp1.stepsizes[b]]

\* the TCP with component comp_no replaced; a main QCD that is not ignored
\* also sets main_qcd_qntsty and main_qcd_numStepSizes
WithTccp(tcp, comp_no, tccp1, setMain) ==
  IF setMain
    THEN [tcp EXCEPT !.main_qcd_qntsty = tccp1.qntsty,
                     !.main_qcd_numStepSizes = tccp1.numStepSizes,
                     !.tccps[comp_no] = tccp1]
    ELSE [tcp EXCEPT !.tccps[comp_no] = tccp1]

\* bytes the step sizes take: one (no quantization) or two each
StepBytes(qntsty, N) == IF qntsty = J2K_CCP_QNTSTY_NOQNT THEN N ELSE 2 * N

\* the step sizes are read into the TCCP tccp1 that BindQuant left
read_SPqcx(tcp, setMain, comp_no, data, ignore, tccp1) ==
  IF Len(data) - 1 < StepBytes(data[1] % 32, tccp1.numStepSizes)
    THEN [ok |-> FALSE, tcp |-> WithTccp(tcp, comp_no, tccp1, setMain),
          header_size |-> Len(data) - 1]
  ELSE [ok |-> TRUE,
        tcp |-> WithTccp(tcp, comp_no,
                         [tccp1 EXCEPT !.stepsizes =
                            ReadSteps(tccp1, ignore, data[1] % 32, data)],
                         setMain),
        header_size |-> Len(data) - 1 - StepBytes(data[1] % 32, tccp1.numStepSizes)]

\* the marker is bound to the component, or ignored, and its step sizes read
read_Sqcx(tcp, fromTileHeader, fromQCC, comp_no, data, ignore) ==
  read_SPqcx(tcp, ~ignore /\ ~fromQCC /\ ~fromTileHeader, comp_no, data, ignore,
             BindQuant(tcp.tccps[comp_no], ignore, fromQCC, fromTileHeader,
                       data[1], Len(data) - 1))

\* result: ok, the coding parameters as left by the call, the remaining *header_size
read_SQcd_SQcc(tcp, fromTileHeader, fromQCC, comp_no, data) ==
  IF Len(data) < 1
    THEN [ok |-> FALSE, tcp |-> tcp, header_size |-> Len(data)]
  ELSE IF data[1] % 32 > J2K_CCP_QNTSTY_SEQNT
    THEN [ok |-> FALSE, tcp |-> tcp, header_size |-> Len(data) - 1]
  ELSE read_Sqcx(tcp, fromTileHeader, fromQCC, comp_no, data,
                 ScopeIgnore(tcp.tccps[comp_no], fromQCC, fromTileHeader))

(***************************************************************************)
(* read_qcd, read_qcc                                                      *)
(***************************************************************************)
\* the scoping rule of the copy to components 1..n-1: TRUE when dest is left alone
QcdCopyIgnore(src, dest) ==
  dest.fromQCC /\ (~src.fromTileHeader \/ dest.fromTileHeader)

\* qntsty, numgbits and stepsizes of component 0 applied to the other components
CopyQuant(tccps) ==
  [c \in Comps |->
     IF c = 0 \/ QcdCopyIgnore(tccps[0], tccps[c])
       THEN tccps[c]
       ELSE [tccps[c] EXCEPT !.qntsty = tccps[0].qntsty,
                             !.numgbits = tccps[0].numgbits,
                             !.stepsizes = tccps[0].stepsizes]]

\* what read_qcd and read_qcc do with the result r of read_SQcd_SQcc
read_qcx_rest(r, copy) ==
  IF ~r.ok \/ r.header_size # 0 THEN [ok |-> FALSE, tcp |-> r.tcp]
  ELSE IF copy THEN [ok |-> TRUE, tcp |-> [r.tcp EXCEPT !.tccps = CopyQuant(@)]]
  ELSE [ok |-> TRUE, tcp |-> r.tcp]

read_qcd(tcp, fromTileHeader, data) ==
  read_qcx_rest(read_SQcd_SQcc(tcp, fromTileHeader, FALSE, 0, data), TRUE)

\* numcomps <= 256: the component number is one byte
read_qcc(tcp, fromTileHeader, data) ==
  IF Len(data) < 1 THEN [ok |-> FALSE, tcp |-> tcp]
  ELSE IF data[1] >= NumComps THEN [ok |-> FALSE, tcp |-> tcp]
  ELSE read_qcx_rest(read_SQcd_SQcc(tcp, fromTileHeader, TRUE, data[1], Tail(data)),
                     FALSE)


(***************************************************************************)
(* read_SPCod_SPCoc, read_cod, read_coc                                    *)
(***************************************************************************)
\* most decomposition levels a COD/COC may signal (resolution levels 1..33)
GRK_J2K_MAX_DECOMP_LVLS == 32
GRK_NUM_PROGRESSION_ORDERS == 5
cod_coc_len == 5
SPCod_SPCoc_len == 5
J2K_CCP_CSTY_PRT == 1
GRK_CBLKSTY_HT == 64
\* user parameter m_coding_params.m_dec.m_reduce (resolutions to discard)
m_reduce == 0

ResIdx == 0 .. (MaxRes - 1)
BitSet(x, bit) == (x \div bit) % 2 = 1
SubSeqFrom(s, i) == SubSeq(s, i, Len(s))

\* the coding part of a TCCP: what COD/COC bind
Coding(t) ==
  [ numresolutions |-> t.numresolutions,
    cblkw          |-> t.cblkw,
    cblkh          |-> t.cblkh,
    cblk_sty       |-> t.cblk_sty,
    qmfbid         |-> t.qmfbid,
    prc            |-> t.prc ]

\* precinct exponents after the marker: entries 0..numresolutions-1 are written
PrecinctsOf(tccp, data, numres) ==
  [i \in ResIdx |->
     IF i >= numres THEN tccp.prc[i]
     ELSE IF BitSet(tccp.csty, J2K_CCP_CSTY_PRT)
       THEN <<data[6 + i] % 16, data[6 + i] \div 16>>
       ELSE <<15, 15>>]

\* index of the first invalid precinct byte, if any
BadPrecinct(data, numres) ==
  \E i \in 1 .. (numres - 1) :
     (data[6 + i] % 16 = 0) \/ (data[6 + i] \div 16 = 0)

\* the test of the code-block exponents without the bound on their sum
IllegalCblk_NoSum(cblkw, cblkh) == cblkw > 8 \/ cblkh > 8
\* tccp->cblkw > 8 || tccp->cblkh > 8 || (tccp->cblkw + tccp->cblkh) > 8
IllegalCblk(cblkw, cblkh) == cblkw > 8 \/ cblkh > 8 \/ cblkw + cblkh > 8

\* result: ok, the coding parameters as left by the call, the remaining *header_size
read_SPCod_SPCoc(tcp, compno, data) ==
  LET tccp  == tcp.tccps[compno]
      hs0   == Len(data)
      fail(t, hs) == [ok |-> FALSE, tcp |-> [tcp EXCEPT !.tccps[compno] = t],
                      header_size |-> hs]
      t1    == [tccp EXCEPT !.numresolutions = data[1]]
      t2    == [t1 EXCEPT !.numresolutions = data[1] + 1]
      t3    == [t2 EXCEPT !.cblkw = data[2], !.cblkh = data[3]]
      t4    == [t3 EXCEPT !.cblkw = data[2] + 2, !.cblkh = data[3] + 2]
      t5    == [t4 EXCEPT !.cblk_sty = data[4]]
      t6    == [t5 EXCEPT !.qmfbid = data[5]]
      hs1   == hs0 - SPCod_SPCoc_len
      numres == t6.numresolutions
      custom == BitSet(tccp.csty, J2K_CCP_CSTY_PRT)
      t7    == [t6 EXCEPT !.prc = PrecinctsOf(t6, data, numres)]
  IN  IF compno >= NumComps
        THEN [ok |-> FALSE, tcp |-> tcp, header_size |-> hs0]
      ELSE IF hs0 < SPCod_SPCoc_len THEN fail(tccp, hs0)
      ELSE IF data[1] > GRK_J2K_MAX_DECOMP_LVLS THEN fail(t1, hs0)
      ELSE IF m_reduce >= t2.numresolutions THEN fail(t2, hs0)
      ELSE IF IllegalCblk(data[2], data[3]) THEN fail(t3, hs0)
      ELSE IF BitSet(data[4], GRK_CBLKSTY_HT) /\ data[4] # GRK_CBLKSTY_HT
        THEN fail(t5, hs0)
      ELSE IF data[4] \div 64 = 2 THEN fail(t5, hs0)
      ELSE IF data[5] > 1 THEN fail(t6, hs0)
      ELSE IF custom /\ hs1 < numres THEN fail(t6, hs1)
      ELSE IF custom /\ BadPrecinct(data, numres)
        THEN fail([t6 EXCEPT !.prc =
                     [i \in ResIdx |->
                        IF \E j \in 1 .. i : (data[6 + j] % 16 = 0) \/ (data[6 + j] \div 16 = 0)
                          THEN t6.prc[i]
                          ELSE PrecinctsOf(t6, data, numres)[i]]], hs1)
      ELSE [ok |-> TRUE, tcp |-> [tcp EXCEPT !.tccps[compno] = t7],
            header_size |-> IF custom THEN hs1 - numres ELSE hs1]

read_cod(tcp, data) ==
  LET tcp0 == [tcp EXCEPT !.cod = TRUE]
      tcp1 == [tcp0 EXCEPT !.csty = data[1]]
      tcp2 == [tcp1 EXCEPT !.prg = data[2]]
      numlayers == data[3] * 256 + data[4]
      tcp3 == [tcp2 EXCEPT !.numlayers = numlayers]
      tcp4 == [tcp3 EXCEPT !.mct = data[5]]
      tcp5 == [tcp4 EXCEPT !.tccps =
                 [c \in Comps |-> [tcp4.tccps[c] EXCEPT
                                     !.csty = tcp4.csty % 2]]]
      r    == read_SPCod_SPCoc(tcp5, 0, SubSeqFrom(data, cod_coc_len + 1))
      ref  == r.tcp.tccps[0]
      copied == [c \in Comps |->
                   IF c = 0 THEN ref
                   ELSE [r.tcp.tccps[c] EXCEPT
                           !.numresolutions = ref.numresolutions,
                           !.cblkw = ref.cblkw,
                           !.cblkh = ref.cblkh,
                           !.cblk_sty = ref.cblk_sty,
                           !.qmfbid = ref.qmfbid,
                           !.prc = [i \in ResIdx |->
                                      IF i < ref.numresolutions THEN ref.prc[i]
                                      ELSE r.tcp.tccps[c].prc[i]]]]
  IN  IF Len(data) < cod_coc_len THEN [ok |-> FALSE, tcp |-> tcp0]
      ELSE IF data[1] \div 8 # 0 THEN [ok |-> FALSE, tcp |-> tcp1]
      ELSE IF data[2] >= GRK_NUM_PROGRESSION_ORDERS THEN [ok |-> FALSE, tcp |-> tcp1]
      ELSE IF numlayers = 0 THEN [ok |-> FALSE, tcp |-> tcp3]
      ELSE IF data[5] > 1 THEN [ok |-> FALSE, tcp |-> tcp4]
      ELSE IF ~r.ok THEN [ok |-> FALSE, tcp |-> r.tcp]
      ELSE IF r.header_size # 0 THEN [ok |-> FALSE, tcp |-> r.tcp]
      ELSE [ok |-> TRUE, tcp |-> [r.tcp EXCEPT !.tccps = copied]]

\* numcomps <= 256: comp_room = 1
read_coc(tcp, data) ==
  LET comp_no == data[1]
      tcp1 == [tcp EXCEPT !.tccps[comp_no].csty = data[2]]
      r    == read_SPCod_SPCoc(tcp1, comp_no, SubSeqFrom(data, 3))
  IN  IF Len(data) < 2 THEN [ok |-> FALSE, tcp |-> tcp]
      ELSE IF comp_no >= NumComps THEN [ok |-> FALSE, tcp |-> tcp]
      ELSE IF ~r.ok THEN [ok |-> FALSE, tcp |-> r.tcp]
      ELSE IF r.header_size # 0 THEN [ok |-> FALSE, tcp |-> r.tcp]
      ELSE [ok |-> TRUE, tcp |-> r.tcp]


(***************************************************************************)
(* State.                                                                  *)
(***************************************************************************)
VARIABLES
  m_default_tcp,   \* m_decompressorState.m_default_tcp: the main header's TCP
  tcps,            \* m_cp.tcps: one TCP per tile
  state,           \* m_decompressorState state flags (a set of flag names)
  cur,             \* tile index of m_currentTileProcessor, NoTile when null
  last,            \* the marker handler call made by the last step
  scope,           \* history: which marker kind wrote each component's parameters
  pc,              \* position of the reader in the header loops
  m_curr_marker,   \* the marker id read last
  marker_size,     \* the length field L read by the last step, -1 when none was read
  lastTilePartWasRead,   \* m_decompressorState.lastTilePartWasRead
  skipTileData,          \* m_decompressorState.skipTileData
  tilePartDataLength,    \* m_currentTileProcessor->tilePartDataLength (uint32_t)
  count,           \* marker segments of this header and tile-parts read so far
  unk,             \* (marker, size) entries the last step's read_unk added to the index
  ret,             \* result of the header reading call
  err,             \* which GRK_ERROR the call reported
  eos,             \* history: where parseTileHeaderMarkers found the stream at its end
  canDecompress,   \* *canDecompress as left by parseTileHeaderMarkers
  tlm,             \* the TileLengthMarkers object (m_cp.tlm_markers)
  tlmOut,          \* the last call on tlm, its result, and the stream's seek
  pl,              \* a PacketLengthMarkers object
  plOut,           \* the last call on pl, its result, and the lengths popped
  sched,           \* T1DecompressScheduler: success, blockCount, the call's result
  worker,          \* each worker task's position and claimed index
  block,           \* each DecompressBlockExec: who claimed it, open's result, deletes
  dwt,             \* WaveletInverse::run: its position, locals, result, and the buffer
  tasks,           \* the partitions of the enki::TaskSets given to the scheduler
  win,             \* a call of a ResWindow function: its arguments and its result
  mcc,             \* the current TCP's MCC and MCT records, and the last read_mcc call
  hdr,             \* the header image's components, the ROI shifts, the last marker body
  rta,             \* GrkRandomTileAccess::main: its loop, the tile indices, its result
  ppt              \* the current TCP's PPT markers and packet header buffer

\* the variables of the header handlers
hvars == <<m_default_tcp, tcps, state, cur, last, scope>>
\* the variables of the marker loops
pvars == <<pc, m_curr_marker, marker_size, lastTilePartWasRead, skipTileData,
           tilePartDataLength, count, unk, ret, err, eos, canDecompress>>
\* the objects of the marker caches and of the block scheduler
\* the variables of the tool and of the PPT markers
tvars == <<rta, ppt>>
wvars == <<dwt, tasks, win, mcc, hdr, tvars>>
xvars == <<tlm, tlmOut, pl, plOut, sched, worker, block, wvars>>
vars == <<hvars, pvars, xvars>>

\* a null pointer: m_cp.tlm_markers and m_cp.plm_markers before the first marker
NoObject == "null"
\* no transform runs
NoTools == rta = NoObject /\ ppt = NoObject
NoWork == dwt = NoObject /\ tasks = NoObject /\ win = NoObject /\ mcc = NoObject
          /\ hdr = NoObject /\ NoTools
\* no marker cache exists and no block scheduler runs
NoCaches_Markers ==
  /\ tlm = NoObject /\ tlmOut = NoObject
  /\ pl = NoObject /\ plOut = NoObject
  /\ sched = NoObject /\ worker = NoObject /\ block = NoObject
\* no marker cache exists and no scheduler runs while only the headers are read
NoCaches ==
  /\ tlm = NoObject /\ tlmOut = NoObject
  /\ pl = NoObject /\ plOut = NoObject
  /\ sched = NoObject /\ worker = NoObject /\ block = NoObject
  /\ NoWork

NoTile == -1

\* isDecodingTilePartHeader(): the TPH flag is set
isDecodingTilePartHeader == "TPH" \in state

\* get_current_decode_tcp(): the default TCP while in the main header,
\* the current tile's TCP afterwards
InMainHeader == state \cap {"MH_SOC", "MH_SIZ", "MH"} # {}
get_current_decode_tcp == IF InMainHeader THEN m_default_tcp ELSE tcps[cur]

\* the variables after the current decode TCP has been replaced by tcp
SetCurrentTcp(tcp) ==
  IF InMainHeader
    THEN m_default_tcp' = tcp /\ tcps' = tcps
    ELSE m_default_tcp' = m_default_tcp /\ tcps' = [tcps EXCEPT ![cur] = tcp]

(***************************************************************************)
(* History of bindings.  Precedence of a QCD/QCC marker:                   *)
(* main-QCD 1 < main-QCC 2 < tile-QCD 3 < tile-QCC 4; 0 is "never bound".  *)
(* Scope of a COC marker: main 1, tile 2; 0 is "no COC".                   *)
(***************************************************************************)
Prec(fromQCC, fromTileHeader) ==
  1 + (IF fromQCC THEN 1 ELSE 0) + (IF fromTileHeader THEN 2 ELSE 0)

NoQcd == [sty |-> -1, n |-> 0]
InitScope == [q |-> [c \in Comps |-> 0], coc |-> [c \in Comps |-> 0], tqcd |-> NoQcd]

\* the scope history of the current decode TCP
CurScope == IF InMainHeader THEN scope.dflt ELSE scope.tile[cur]

SetCurScope(sc) ==
  IF InMainHeader THEN scope' = [scope EXCEPT !.dflt = sc]
  ELSE scope' = [scope EXCEPT !.tile[cur] = sc]

\* components whose quantization parameters a read_qcd call writes, r its result
QcdWrites(tcp, fromTileHeader, data, r) ==
  {c \in Comps :
     IF c = 0
       THEN /\ Len(data) >= 1
            /\ data[1] % 32 <= J2K_CCP_QNTSTY_SEQNT
            /\ ~ScopeIgnore(tcp.tccps[0], FALSE, fromTileHeader)
       ELSE r.ok /\ ~QcdCopyIgnore(r.tcp.tccps[0], tcp.tccps[c])}

\* components whose quantization parameters a read_qcc call writes
QccWrites(tcp, fromTileHeader, data) ==
  {c \in Comps :
     /\ Len(data) >= 2
     /\ data[1] = c
     /\ data[2] % 32 <= J2K_CCP_QNTSTY_SEQNT
     /\ ~ScopeIgnore(tcp.tccps[c], TRUE, fromTileHeader)}

(***************************************************************************)
(* Marker segment bodies offered by the input.                             *)
(***************************************************************************)
\* a body of n bytes, every byte equal to fill
Fill(n, fill) == [i \in 1 .. n |-> fill]

\* an SQcd/SQcc body: Sqcd byte (style sty, g guard bits) and n bytes of step sizes
SQ(sty, g, n, fill) == <<sty + 32 * g>> \o Fill(n, fill)

\* well-formed bodies (no quantization, scalar derived, scalar expounded) and
\* malformed ones (derived with one byte, expounded with a trailing byte, style 3)
SQcdMenu ==
  { SQ(J2K_CCP_QNTSTY_NOQNT, 1, 1, 8),
    SQ(J2K_CCP_QNTSTY_NOQNT, 2, MaxQBody, 16),
    SQ(J2K_CCP_QNTSTY_SIQNT, 1, 2, 8),
    SQ(J2K_CCP_QNTSTY_SEQNT, 2, 4, 16),
    SQ(J2K_CCP_QNTSTY_SIQNT, 1, 1, 8),
    SQ(J2K_CCP_QNTSTY_SEQNT, 1, 3, 8),
    SQ(3, 1, 0, 0) }

QcdMenu == SQcdMenu \cup { << >> }
QccMenu == { <<c>> \o d : c \in 0 .. NumComps, d \in SQcdMenu } \cup { << >> }

(***************************************************************************)
(* The handlers as called from the marker loops (process_marker).  A       *)
(* handler that returns false ends header reading.                         *)
(***************************************************************************)
NoCall == [op |-> "none", fth |-> FALSE, ok |-> TRUE]

\* the call record of this step
CallRec(op, data, ok) ==
  [op |-> op, fth |-> isDecodingTilePartHeader, ok |-> ok]

\* the history also keeps the style and step count of the QCD of a tile-part
\* header that bound component 0
Call_read_qcd(data) ==
  \E fth \in {isDecodingTilePartHeader} :
    \E r \in {read_qcd(get_current_decode_tcp, fth, data)} :
      \E w \in {QcdWrites(get_current_decode_tcp, fth, data, r)} :
        /\ SetCurrentTcp(r.tcp)
        /\ last' = CallRec("QCD", data, r.ok)
        /\ SetCurScope([CurScope EXCEPT
                          !.q = [c \in Comps |-> IF c \in w THEN Prec(FALSE, fth) ELSE @[c]],
                          !.tqcd = IF fth /\ r.ok /\ 0 \in w
                                     THEN [sty |-> data[1] % 32,
                                           n |-> NumStepSizesOf(data[1] % 32, Len(data) - 1)]
                                     ELSE @])

Call_read_qcc(data) ==
  \E fth \in {isDecodingTilePartHeader} :
    \E r \in {read_qcc(get_current_decode_tcp, fth, data)} :
      \E w \in {QccWrites(get_current_decode_tcp, fth, data)} :
        /\ SetCurrentTcp(r.tcp)
        /\ last' = CallRec("QCC", data, r.ok)
        /\ SetCurScope([CurScope EXCEPT !.q =
                          [c \in Comps |-> IF c \in w THEN Prec(TRUE, fth) ELSE @[c]]])

\* end of the main header: every tile's TCP starts as a copy of the default TCP;
\* then, and after a tile-part, the SOT of a tile-part of tile t makes t the
\* current tile
StartTilePart(t) ==
  /\ last.ok
  /\ \/ /\ state = {"MH"}
        /\ tcps' = [u \in Tiles |-> m_default_tcp]
        /\ scope' = [scope EXCEPT !.tile = [u \in Tiles |-> scope.dflt]]
     \/ /\ state = {"TPH"}
        /\ UNCHANGED <<tcps, scope>>
  /\ state' = {"TPH"}
  /\ cur' = t
  /\ last' = [NoCall EXCEPT !.op = "SOT", !.fth = TRUE]
  /\ UNCHANGED <<m_default_tcp, pvars, xvars>>

InHeader == state \cap {"MH", "TPH"} # {}

InitVars ==
  /\ m_default_tcp = InitTcp
  /\ tcps = [t \in Tiles |-> InitTcp]
  /\ cur = NoTile
  /\ last = NoCall
  /\ scope = [dflt |-> InitScope, tile |-> [t \in Tiles |-> InitScope]]
  /\ marker_size = -1
  /\ lastTilePartWasRead = FALSE
  /\ skipTileData = FALSE
  /\ tilePartDataLength = 0
  /\ count = [seg |-> 0, parts |-> 0]
  /\ unk = << >>
  /\ ret = "none"
  /\ err = "none"
  /\ eos = "none"
  /\ canDecompress = "unset"

(***************************************************************************)
(* SpecQcx: any sequence of QCD and QCC markers, main header first.        *)
(***************************************************************************)
InitQcx == InitVars /\ NoCaches /\ state = {"MH"} /\ pc = "handlers" /\ m_curr_marker = 0

\* one marker handed to its handler
QcdMarker(d) == last.ok /\ InHeader /\ Call_read_qcd(d)
  /\ UNCHANGED <<state, cur, pvars, xvars>>
QccMarker(d) == last.ok /\ InHeader /\ Call_read_qcc(d)
  /\ UNCHANGED <<state, cur, pvars, xvars>>

NextQcx ==
  \/ \E d \in QcdMenu : QcdMarker(d)
  \/ \E d \in QccMenu : QccMarker(d)
  \/ \E t \in Tiles : StartTilePart(t)

SpecQcx == InitQcx /\ [][NextQcx]_vars


(***************************************************************************)
(* SpecCox: any sequence of COD and COC markers, main header first.        *)
(***************************************************************************)
\* an SPCod/SPCoc body: D decompositions, code-block exponent offsets, style,
\* wavelet, and the precinct bytes
SP(D, w, h, sty, qmfbid, prec) == <<D, w, h, sty, qmfbid>> \o prec

\* well-formed bodies for a marker without (prt = 0) or with (prt = 1) custom
\* precincts
SPGood(prt) ==
  IF prt = 0
    THEN { SP(0, 2, 2, 0, 1, << >>),
           SP(MaxRes - 1, 4, 4, GRK_CBLKSTY_HT, 0, << >>) }
    ELSE { SP(1, 4, 4, 0, 0, <<34, 51>>) }

\* malformed bodies: code-block exponents out of range, HT bit with other mode
\* bits, style bits 10, wavelet 2, too many decompositions, a trailing byte, a
\* short body; with custom precincts: a zero exponent above resolution 0, a
\* missing precinct byte
SPBad(prt) ==
  IF prt = 0
    THEN { SP(1, 5, 4, 0, 1, << >>),
           SP(1, 2, 2, GRK_CBLKSTY_HT + 1, 1, << >>),
           SP(0, 2, 2, 128, 1, << >>),
           SP(0, 2, 2, 0, 2, << >>),
           SP(GRK_J2K_MAX_DECOMP_LVLS + 1, 2, 2, 0, 1, << >>),
           SP(0, 2, 2, 0, 1, <<17>>),
           <<0, 2, 2>> }
    ELSE { SP(1, 4, 4, 0, 0, <<34, 3>>),
           SP(1, 4, 4, 0, 0, <<34>>) }

\* COD bodies: Scod, progression order, layers (2 bytes), MCT, SPCod
CodMenu ==
  { <<0, 0, 0, 1, 0>> \o sp : sp \in SPGood(0) \cup SPBad(0) }
  \cup { <<1, 0, 0, 1, 0>> \o sp : sp \in SPGood(1) \cup SPBad(1) }
  \cup { <<8, 0, 0, 1, 0>> \o SP(0, 2, 2, 0, 1, << >>),
         <<0, GRK_NUM_PROGRESSION_ORDERS, 0, 1, 0>> \o SP(0, 2, 2, 0, 1, << >>),
         <<0, 0, 0, 0, 0>> \o SP(0, 2, 2, 0, 1, << >>),
         <<0, 0, 0, 1, 2>> \o SP(0, 2, 2, 0, 1, << >>),
         <<0, 0, 0, 1>> }

\* COC bodies: Ccoc, Scoc, SPCoc
CocMenu ==
  { <<c, 0>> \o sp : c \in Comps, sp \in SPGood(0) }
  \cup { <<c, 1>> \o sp : c \in Comps, sp \in SPGood(1) }
  \cup { <<NumComps, 0>> \o SP(0, 2, 2, 0, 1, << >>),
         <<0, 0>> \o SP(1, 5, 4, 0, 1, << >>),
         <<0>> }

Call_read_cod(data) ==
  LET r == read_cod(get_current_decode_tcp, data)
  IN  /\ SetCurrentTcp(r.tcp)
      /\ last' = CallRec("COD", data, r.ok)
      /\ UNCHANGED scope

\* a COC that succeeds binds its component at the scope of the current header
Call_read_coc(data) ==
  LET r == read_coc(get_current_decode_tcp, data)
  IN  /\ SetCurrentTcp(r.tcp)
      /\ last' = CallRec("COC", data, r.ok)
      /\ SetCurScope([CurScope EXCEPT !.coc =
                        [c \in Comps |->
                           IF r.ok /\ data[1] = c
                             THEN (IF isDecodingTilePartHeader THEN 2 ELSE 1)
                             ELSE @[c]]])

InitCox == InitVars /\ NoCaches /\ state = {"MH"} /\ pc = "handlers" /\ m_curr_marker = 0

CodMarker(d) == last.ok /\ InHeader /\ Call_read_cod(d)
  /\ UNCHANGED <<state, cur, pvars, xvars>>
CocMarker(d) == last.ok /\ InHeader /\ Call_read_coc(d)
  /\ UNCHANGED <<state, cur, pvars, xvars>>

NextCox ==
  \/ \E d \in CodMenu : CodMarker(d)
  \/ \E d \in CocMenu : CocMarker(d)
  \/ \E t \in Tiles : StartTilePart(t)

SpecCox == InitCox /\ [][NextCox]_vars

(***************************************************************************)
(* Marker ids and the table of marker handlers.                            *)
(***************************************************************************)
J2K_MS_COD == 65362
J2K_MS_COC == 65363
J2K_MS_QCD == 65372
J2K_MS_QCC == 65373
J2K_MS_CRG == 65379
J2K_MS_SOT == 65424
J2K_MS_SOD == 65427
J2K_MS_EOC == 65497

\* words the input offers that have no handler: 0xFF99
UnknownWords == {65433}
\* words below 0xFF00, for which readMarker throws InvalidMarkerException
InvalidWords == {0}
\* the result of a read of two bytes when the stream has fewer than two left
NoWord == -1

SegmentMarkers == {J2K_MS_COD, J2K_MS_COC, J2K_MS_QCD, J2K_MS_QCC, J2K_MS_CRG}

\* the registered handlers this model runs, with the states each is legal in
marker_map ==
  [m \in SegmentMarkers \cup {J2K_MS_SOT} |->
     [id |-> m,
      states |-> IF m = J2K_MS_SOT THEN {"MH", "TPH_SOT"}
                 ELSE IF m = J2K_MS_CRG THEN {"MH"}
                 ELSE {"MH", "TPH"}]]

NoHandler == [id |-> 0, states |-> {}]

get_marker_handler(m) ==
  IF m \in DOMAIN marker_map THEN marker_map[m] ELSE NoHandler

\* the state test with the test left out
StateAllows_Always(st, handler) == TRUE

\* m_decompressorState.getState() & marker_handler->states
StateAllows(st, handler) == st \cap handler.states # {}

\* the length test without the test for L = 2
MalformedSize_Below2(L) == L < 2

\* marker_size < 2, marker_size == 2
MalformedSize(L) == L < 2 \/ L = 2

\* readMarker on the next word w of the stream
readMarker(w) ==
  IF w = NoWord THEN "eof"
  ELSE IF w < 65280 THEN "invalid"
  ELSE "ok"

\* uint32_t subtraction; a value of 2^31 or more is kept as its two's complement
\* (so -2 stands for 2^32 - 2)
U32Sub(a, b) == a - b

(***************************************************************************)
(* read_crg, read_sot, prepareSodDecompress                                *)
(***************************************************************************)
\* the registration offsets themselves are not kept
read_crg(data) == Len(data) = NumComps * 4

sot_marker_segment_len == 12

\* SOT body: Isot (2 bytes), Psot (4), TPsot (1), TNsot (1)
read_sot(data) ==
  LET Isot == data[1] * 256 + data[2]
      Psot == ((data[3] * 256 + data[4]) * 256 + data[5]) * 256 + data[6]
      TPsot == data[7]
      TNsot == data[8]
      bad  == [ok |-> FALSE, tile |-> NoTile, len |-> 0, lastPart |-> FALSE]
  IN  IF Len(data) # 8 THEN bad
      ELSE IF Isot >= NumTiles THEN bad
      ELSE IF Psot < sot_marker_segment_len THEN bad
      ELSE [ok |-> TRUE, tile |-> Isot,
            len |-> Psot - sot_marker_segment_len,
            lastPart |-> (TNsot # 0 /\ TPsot + 1 = TNsot)]

\* the tile-part's data follows the SOD marker, which tilePartDataLength
\* still counts; avail tells whether the stream holds all of it
prepareSodDecompress(tcp, tpl, avail) ==
  LET len == IF tpl >= 2 \/ tpl < 0 THEN U32Sub(tpl, 2) ELSE 0
  IN  [tcp   |-> [tcp EXCEPT !.m_compressedTileData = @ \/ (len # 0)],
       state |-> IF avail = "cut" THEN {"NO_EOC"} ELSE {"TPH_SOT"},
       len   |-> len]

(***************************************************************************)
(* read_unk: ws are the words the stream holds after the unknown marker.   *)
(* Result: ok, the current marker, and the index entries added.            *)
(***************************************************************************)
RECURSIVE read_unk_FirstWord(_)
\* read_unk stopping at the first word of 0xFF00 or more, with a handler or not
read_unk_FirstWord(ws) ==
  IF ws = << >> THEN [ok |-> FALSE, marker |-> m_curr_marker, log |-> << >>]
  ELSE IF readMarker(Head(ws)) = "invalid" THEN read_unk_FirstWord(Tail(ws))
  ELSE [ok |-> TRUE, marker |-> Head(ws), log |-> <<<<m_curr_marker, 2>>>>]

RECURSIVE read_unk_loop(_, _, _, _, _)
read_unk_loop(ws, curr, unknownMarker, size_unk, log) ==
  IF ws = << >> THEN [ok |-> FALSE, marker |-> curr, log |-> log]
  ELSE LET w == Head(ws)
       IN  IF readMarker(w) = "invalid"
             THEN read_unk_loop(Tail(ws), curr, unknownMarker, size_unk + 2, log)
           ELSE IF get_marker_handler(w) = NoHandler
             THEN read_unk_loop(Tail(ws), w, w, 2,
                                Append(log, <<unknownMarker, size_unk>>))
           ELSE [ok |-> TRUE, marker |-> w,
                 log |-> Append(log, <<unknownMarker, size_unk>>)]

read_unk(ws) == read_unk_loop(ws, m_curr_marker, m_curr_marker, 2, << >>)

(***************************************************************************)
(* Post-header validation of parseTileHeaderMarkers.                       *)
(***************************************************************************)
SetMax(S) == IF S = {} THEN 0 ELSE CHOOSE x \in S : \A y \in S : y <= x

\* the lossy wavelet test with the test left out
LossyHasQuant_Off(tcp) == TRUE

\* ensure lossy wavelet has quantization set
LossyHasQuant(tcp) ==
  \A k \in Comps :
    ~(tcp.tccps[k].qmfbid = 0 /\ tcp.tccps[k].qntsty = J2K_CCP_QNTSTY_NOQNT)

\* 1. Check main QCD: the components counted
MainQcdComps(tcp) ==
  {k \in Comps : /\ tcp.tccps[k].numresolutions # 0
                 /\ ~(tcp.tccps[k].fromQCC \/ tcp.tccps[k].fromTileHeader)}

maxDecompositions(tcp) ==
  SetMax({(tcp.tccps[k].numresolutions - 1) % 256 : k \in MainQcdComps(tcp)})

MainQcdOk(tcp) ==
  ~(tcp.main_qcd_numStepSizes < 3 * maxDecompositions(tcp) + 1)

\* 2. Check Tile QCD: the first component bound by a tile QCD; nullptr is -1
qcd_comp(tcp) ==
  LET S == {k \in Comps : tcp.tccps[k].fromTileHeader /\ ~tcp.tccps[k].fromQCC}
  IN  IF S = {} THEN NoTile ELSE CHOOSE k \in S : \A j \in S : k <= j

TileQcdComps(tcp) ==
  {k \in Comps : /\ tcp.tccps[k].numresolutions # 0
                 /\ ~(tcp.tccps[k].fromQCC /\ tcp.tccps[k].fromTileHeader)}

maxTileDecompositions(tcp) ==
  SetMax({(tcp.tccps[k].numresolutions - 1) % 256 : k \in TileQcdComps(tcp)})

TileQcdOk(tcp) ==
  LET q == qcd_comp(tcp)
  IN  (q # NoTile /\ tcp.tccps[q].qntsty # J2K_CCP_QNTSTY_SIQNT)
        => ~(tcp.tccps[q].numStepSizes < 3 * maxTileDecompositions(tcp) + 1)

\* the error the validation reports, "none" when the tile passes
Validate(tcp) ==
  IF ~LossyHasQuant(tcp) THEN "irreversible without quantization"
  ELSE IF tcp.main_qcd_qntsty # J2K_CCP_QNTSTY_SIQNT
    THEN IF ~MainQcdOk(tcp) THEN "From Main QCD marker"
         ELSE IF ~TileQcdOk(tcp) THEN "From Tile QCD marker"
         ELSE "none"
  ELSE "none"

(***************************************************************************)
(* The input of the marker loops.                                          *)
(***************************************************************************)
\* most marker segments (other than SOT) of the main header, and of the
\* tile-part headers together
MaxHdrSegs == 2
\* most tile-parts of the code stream
MaxTileParts == 2
\* most words read_unk skips before the stream ends or a known marker comes
MaxUnkWords == 2

\* QCD/QCC bodies: no quantization with one and with MaxQBody step sizes,
\* scalar derived
QN1   == SQ(J2K_CCP_QNTSTY_NOQNT, 1, 1, 8)
QNmax == SQ(J2K_CCP_QNTSTY_NOQNT, 2, MaxQBody, 16)
QS    == SQ(J2K_CCP_QNTSTY_SIQNT, 1, 2, 8)

\* COD body: no custom precincts, one layer, D decompositions
CodBody(D, qmfbid) == <<0, 0, 0, 1, 0>> \o SP(D, 2, 2, 0, qmfbid, << >>)

SotBody(t, Psot, TPsot, TNsot) ==
  <<t \div 256, t % 256, 0, 0, Psot \div 256, Psot % 256, TPsot, TNsot>>

\* bodies the input offers after the length field of marker m, in the main
\* header and in a tile-part header
SegBodies(m) ==
  LET mh == "MH" \in state
  IN  CASE m = J2K_MS_QCD -> IF mh THEN {QN1, QS} ELSE {QN1, QNmax}
        [] m = J2K_MS_QCC -> IF mh THEN {<<NumComps - 1>> \o QNmax} ELSE {<<0>> \o QNmax}
        [] m = J2K_MS_COD -> IF mh THEN {CodBody(0, 1), CodBody(0, 0)} ELSE {CodBody(1, 1)}
        [] m = J2K_MS_COC -> {<<NumComps - 1, 0>> \o SP(1, 2, 2, 0, 1, << >>)}
        [] m = J2K_MS_CRG -> {Fill(4 * NumComps, 0)}
        [] m = J2K_MS_SOT -> {SotBody(t, 48, 0, n) : t \in Tiles, n \in {0, 1}}
                               \cup {SotBody(t, 24, 0, 1) : t \in Tiles}
        [] OTHER -> {Fill(4, 0)}

\* what follows a marker id: no byte at all, one byte, a length field L with
\* the L - 2 bytes it announces, or a length field and then the end of the stream
Segments(m) ==
  {[kind |-> "seg", L |-> Len(b) + 2, body |-> b] : b \in SegBodies(m)}
  \cup {[kind |-> "seg", L |-> l, body |-> << >>] : l \in 0 .. 2}
  \cup {[kind |-> k, L |-> 6, body |-> << >>] : k \in {"cut", "eof", "short"}}

\* words the input offers where a marker id is read; when the header or the
\* code stream is as long as the model lets it be, no further segment starts
NextWords(cnt) ==
  {J2K_MS_SOD, J2K_MS_EOC, NoWord} \cup InvalidWords
  \cup (IF cnt.seg < MaxHdrSegs THEN SegmentMarkers \cup UnknownWords ELSE {})
  \cup (IF cnt.parts < MaxTileParts THEN {J2K_MS_SOT} ELSE {})

AllWords ==
  SegmentMarkers \cup UnknownWords \cup InvalidWords
  \cup {J2K_MS_SOT, J2K_MS_SOD, J2K_MS_EOC, NoWord}

\* the words read_unk is given: skipped words, then a marker with a handler
\* or the end of the stream
RECURSIVE WordSeqs(_)
WordSeqs(n) ==
  IF n = 0 THEN {<< >>}
  ELSE WordSeqs(n - 1)
       \cup {Append(s, w) : s \in WordSeqs(n - 1),
                            w \in UnknownWords \cup InvalidWords \cup {J2K_MS_EOC}}

UnkInputs ==
  {s \o e : s \in WordSeqs(MaxUnkWords),
            e \in {<< >>} \cup {<<k>> : k \in {J2K_MS_SOT, J2K_MS_COD, J2K_MS_QCD}}}

(***************************************************************************)
(* process_marker: the handler of marker id on the bytes of the segment.   *)
(* skip is what read_sot finds for the tile: outside of what is decoded.   *)
(* tpl is tilePartDataLength as the loop left it.                          *)
(***************************************************************************)
Call_read_sot(data, skip, tpl) ==
  LET r == read_sot(data)
  IN  /\ last' = CallRec("SOT", data, r.ok)
      /\ cur' = IF r.ok THEN r.tile ELSE cur
      /\ state' = IF r.ok THEN {"TPH"} ELSE state
      /\ lastTilePartWasRead' = IF r.ok THEN r.lastPart ELSE lastTilePartWasRead
      /\ skipTileData' = IF r.ok THEN skip ELSE skipTileData
      /\ tilePartDataLength' = IF r.ok THEN r.len ELSE tpl
      /\ UNCHANGED <<m_default_tcp, tcps, scope>>

process_marker(id, data, skip, tpl) ==
  IF id = J2K_MS_SOT THEN Call_read_sot(data, skip, tpl)
  ELSE /\ CASE id = J2K_MS_QCD -> Call_read_qcd(data)
            [] id = J2K_MS_QCC -> Call_read_qcc(data)
            [] id = J2K_MS_COD -> Call_read_cod(data)
            [] id = J2K_MS_COC -> Call_read_coc(data)
            [] id = J2K_MS_CRG ->
                 /\ last' = CallRec("CRG", data, read_crg(data))
                 /\ UNCHANGED <<m_default_tcp, tcps, scope>>
       /\ tilePartDataLength' = tpl
       /\ UNCHANGED <<state, cur, lastTilePartWasRead, skipTileData>>

\* a step that runs no handler
NoHandlerRun(st, tpl) ==
  /\ last' = NoCall
  /\ state' = st
  /\ tilePartDataLength' = tpl
  /\ UNCHANGED <<m_default_tcp, tcps, scope, cur, lastTilePartWasRead, skipTileData>>

\* where the loops of parseTileHeaderMarkers go on with marker m current
InnerLoop(m) == IF m # J2K_MS_SOD THEN "inner" ELSE "sod"
OuterLoop(ltpwr, m) ==
  IF ~ltpwr /\ m # J2K_MS_EOC THEN InnerLoop(m) ELSE "finish"

Goto(p, m) == [pc |-> p, ret |-> "none", err |-> "none", marker |-> m]
Return(v, e) == [pc |-> "done", ret |-> v, err |-> e, marker |-> m_curr_marker]

Leave(o) ==
  /\ pc' = o.pc
  /\ ret' = o.ret
  /\ err' = o.err
  /\ m_curr_marker' = o.marker

\* the segment counters after a marker segment
Counted(ranSot) ==
  IF ranSot THEN [count EXCEPT !.parts = @ + 1]
  ELSE [count EXCEPT !.seg = @ + 1]

(***************************************************************************)
(* The main header loop, from the marker after SIZ to the first SOT.       *)
(***************************************************************************)
\* an unknown marker is current: read_unk
MH_Unknown(ws) ==
  LET r == read_unk(ws)
  IN  /\ pc = "mh"
      /\ UNCHANGED xvars
      /\ get_marker_handler(m_curr_marker) = NoHandler
      /\ unk' = r.log
      /\ marker_size' = -1
      /\ NoHandlerRun(state, tilePartDataLength)
      /\ Leave(IF r.ok THEN Goto("mh", r.marker)
               ELSE [Return("false", "Unable to read unknown marker")
                       EXCEPT !.marker = r.marker])
      /\ UNCHANGED <<count, eos, canDecompress>>

\* a marker with a handler is current: its segment is read and handled, then
\* the next marker id is read
MH_Marker(seg, nxt) ==
  LET h   == get_marker_handler(m_curr_marker)
      run == /\ StateAllows(state, h)
             /\ seg.kind = "seg"
             /\ ~MalformedSize(seg.L)
  IN  /\ pc = "mh"
      /\ UNCHANGED xvars
      /\ h # NoHandler
      /\ m_curr_marker # J2K_MS_SOT
      /\ count.seg < MaxHdrSegs
      /\ seg.kind # "eof"
      /\ nxt \in NextWords(Counted(FALSE))
      /\ marker_size' = IF StateAllows(state, h) /\ seg.kind # "short"
                          THEN seg.L ELSE -1
      /\ IF run THEN process_marker(h.id, seg.body, FALSE, tilePartDataLength)
         ELSE NoHandlerRun(state, tilePartDataLength)
      /\ Leave(IF ~StateAllows(state, h)
                 THEN Return("false", "not compliant with its expected position")
               ELSE IF seg.kind = "short" THEN Return("false", "read_short")
               ELSE IF MalformedSize(seg.L) THEN Return("false", "marker size")
               ELSE IF seg.kind = "cut" THEN Return("false", "Stream too short")
               ELSE IF ~last'.ok THEN Return("false", "marker handler")
               ELSE IF readMarker(nxt) = "eof" THEN Return("false", "readMarker")
               ELSE IF readMarker(nxt) = "invalid" THEN Return("exception", "InvalidMarkerException")
               ELSE Goto("mh", nxt))
      /\ count' = Counted(FALSE)
      /\ unk' = << >>
      /\ UNCHANGED <<eos, canDecompress>>

\* SOT is current: the main header is complete, every tile's TCP starts as a
\* copy of the default TCP, and a tile-part header is next
MH_End ==
  /\ pc = "mh"
  /\ UNCHANGED xvars
  /\ m_curr_marker = J2K_MS_SOT
  /\ state' = {"TPH_SOT"}
  /\ tcps' = [u \in Tiles |-> m_default_tcp]
  /\ scope' = [scope EXCEPT !.tile = [u \in Tiles |-> scope.dflt]]
  /\ count' = [seg |-> 0, parts |-> 0]
  /\ last' = NoCall
  /\ marker_size' = -1
  /\ Leave(Goto("enter", m_curr_marker))
  /\ unk' = << >>
  /\ UNCHANGED <<m_default_tcp, cur, lastTilePartWasRead, skipTileData,
                 tilePartDataLength, eos, canDecompress>>

(***************************************************************************)
(* parseTileHeaderMarkers                                                  *)
(***************************************************************************)
\* the tests on entry
PTH_Enter ==
  /\ pc = "enter"
  /\ UNCHANGED xvars
  /\ marker_size' = -1
  /\ NoHandlerRun(state, tilePartDataLength)
  /\ Leave(IF state = {"EOC"} THEN [Return("true", "none") EXCEPT !.marker = J2K_MS_EOC]
           ELSE IF state # {"TPH_SOT"} THEN Return("false", "no SOT marker found")
           ELSE Goto(OuterLoop(lastTilePartWasRead, m_curr_marker), m_curr_marker))
  /\ unk' = << >>
  /\ UNCHANGED <<count, eos, canDecompress>>

\* one pass of the loop that reads markers until SOD is detected
PTH_Inner(seg, nxt, skip, avail) ==
  LET h     == get_marker_handler(m_curr_marker)
      sized == seg.kind \in {"seg", "cut"} /\ ~MalformedSize(seg.L)
      tpl   == IF sized /\ "TPH" \in state
                 THEN U32Sub(tilePartDataLength, seg.L + 2)
                 ELSE tilePartDataLength
      run   == /\ sized
               /\ h # NoHandler
               /\ StateAllows(state, h)
               /\ seg.kind = "seg"
      isSot == h.id = J2K_MS_SOT
  IN  /\ pc = "inner"
      /\ UNCHANGED xvars
      /\ IF m_curr_marker = J2K_MS_SOT THEN count.parts < MaxTileParts
         ELSE count.seg < MaxHdrSegs
      /\ count' = Counted(run /\ isSot)
      /\ marker_size' = IF seg.kind \in {"eof", "short"} THEN -1 ELSE seg.L
      /\ IF run THEN process_marker(h.id, seg.body, skip, tpl)
         ELSE NoHandlerRun(IF seg.kind = "eof" THEN {"NO_EOC"} ELSE state, tpl)
      /\ Leave(IF seg.kind = "eof" THEN Goto("finish", m_curr_marker)
               ELSE IF seg.kind = "short" THEN Return("false", "read_short")
               ELSE IF MalformedSize(seg.L) THEN Return("false", "marker size")
               ELSE IF h = NoHandler
                 THEN Return("false", "Unknown marker encountered while seeking SOT marker")
               ELSE IF ~StateAllows(state, h)
                 THEN Return("false", "not compliant with its expected position")
               ELSE IF seg.kind = "cut" THEN Return("false", "Stream too short")
               ELSE IF ~last'.ok THEN Return("false", "marker handler")
               ELSE IF isSot /\ skipTileData'
                 THEN IF avail = "cut" THEN Return("false", "Stream too short")
                      ELSE Goto("sod", m_curr_marker)
               ELSE IF readMarker(nxt) = "eof" THEN Return("false", "readMarker")
               ELSE IF readMarker(nxt) = "invalid"
                 THEN Return("exception", "InvalidMarkerException")
               ELSE Goto(InnerLoop(nxt), nxt))
      /\ nxt \in NextWords(count')
      /\ eos' = IF seg.kind = "eof" THEN "length" ELSE eos
      /\ unk' = << >>
      /\ UNCHANGED canDecompress

\* after the marker loop: the tile-part's data is read or was skipped, and the
\* marker after it is read
PTH_Sod(avail, nxt) ==
  LET p  == prepareSodDecompress(tcps[cur], tilePartDataLength, avail)
      rm == IF avail = "cut" THEN "eof" ELSE readMarker(nxt)
  IN  /\ pc = "sod"
      /\ UNCHANGED xvars
      /\ nxt \in NextWords(count)
      /\ marker_size' = -1
      /\ last' = NoCall
      /\ IF ~skipTileData
           THEN /\ (avail = "cut") => (p.len # 0 /\ nxt = NoWord)
                /\ (avail = "all") => p.len >= 0
                /\ tcps' = [tcps EXCEPT ![cur] = p.tcp]
                /\ state' = IF ~lastTilePartWasRead /\ rm = "eof"
                              THEN {"NO_EOC"} ELSE p.state
                /\ Leave(IF lastTilePartWasRead
                           THEN Goto(OuterLoop(TRUE, m_curr_marker), m_curr_marker)
                         ELSE IF rm = "eof" THEN Goto("finish", m_curr_marker)
                         ELSE IF rm = "invalid"
                           THEN Return("exception", "InvalidMarkerException")
                         ELSE Goto(OuterLoop(FALSE, nxt), nxt))
                /\ UNCHANGED <<lastTilePartWasRead, skipTileData>>
           ELSE /\ avail = "all"
                /\ tcps' = tcps
                /\ state' = IF rm = "eof" THEN {"NO_EOC"}
                            ELSE IF rm = "invalid" THEN state
                            ELSE {"TPH_SOT"}
                /\ skipTileData' = IF rm = "ok" THEN FALSE ELSE skipTileData
                /\ lastTilePartWasRead' = IF rm = "ok" THEN FALSE ELSE lastTilePartWasRead
                /\ Leave(IF rm = "eof" THEN Goto("finish", m_curr_marker)
                         ELSE IF rm = "invalid"
                           THEN Return("exception", "InvalidMarkerException")
                         ELSE Goto(OuterLoop(FALSE, nxt), nxt))
      /\ eos' = IF ~skipTileData /\ avail = "cut" THEN "data"
                 ELSE IF (skipTileData \/ ~lastTilePartWasRead) /\ rm = "eof"
                   THEN "after data"
                 ELSE eos
      /\ unk' = << >>
      /\ UNCHANGED <<m_default_tcp, cur, scope, tilePartDataLength, count,
                     canDecompress>>

\* the test without the test of the tile's data
NoTileData_AnyPartial(ltpwr, tcp) == ~ltpwr

\* not ready to decompress tile part data, and a tile with no tile data
NoTileData(ltpwr, tcp) == ~ltpwr /\ ~tcp.m_compressedTileData

\* after the loops: the tile's parameters are validated and the tile is made
\* ready; initOk is the result of m_currentTileProcessor->init()
PTH_Finish(initOk) ==
  LET e      == IF cur = NoTile THEN "Missing SOT marker"
                ELSE Validate(get_current_decode_tcp)
      st1    == IF m_curr_marker = J2K_MS_EOC /\ state # {"EOC"}
                  THEN {"EOC"} ELSE state
      noData == NoTileData(lastTilePartWasRead, tcps[cur])
  IN  /\ pc = "finish"
      /\ UNCHANGED xvars
      /\ marker_size' = -1
      /\ last' = NoCall
      /\ IF e # "none"
           THEN /\ Leave(Return("false", e))
                /\ UNCHANGED <<state, canDecompress>>
         ELSE IF noData
           THEN /\ Leave(Return("true", "none"))
                /\ state' = st1
                /\ canDecompress' = FALSE
         ELSE IF ~initOk
           THEN /\ Leave(Return("false", "Cannot decompress tile"))
                /\ state' = st1
                /\ UNCHANGED canDecompress
         ELSE /\ Leave(Return("true", "none"))
              /\ state' = st1 \cup {"DATA"}
              /\ canDecompress' = TRUE
      /\ unk' = << >>
      /\ UNCHANGED <<m_default_tcp, tcps, cur, scope, lastTilePartWasRead,
                     skipTileData, tilePartDataLength, count, eos>>

(***************************************************************************)
(* Spec: the header of a code stream is read, from the marker after SIZ    *)
(* to the return of parseTileHeaderMarkers.                                *)
(***************************************************************************)
FirstWords == SegmentMarkers \cup UnknownWords \cup {J2K_MS_SOT, J2K_MS_SOD}

Init ==
  /\ InitVars
  /\ NoCaches
  /\ state = {"MH"}
  /\ pc = "mh"
  /\ m_curr_marker \in FirstWords

Next ==
  \/ \E ws \in UnkInputs : MH_Unknown(ws)
  \/ \E seg \in Segments(m_curr_marker), nxt \in AllWords : MH_Marker(seg, nxt)
  \/ MH_End
  \/ PTH_Enter
  \/ \E seg \in Segments(m_curr_marker), nxt \in AllWords,
        skip \in IF m_curr_marker = J2K_MS_SOT THEN BOOLEAN ELSE {FALSE},
        avail \in IF m_curr_marker = J2K_MS_SOT THEN {"all", "cut"} ELSE {"all"} :
       PTH_Inner(seg, nxt, skip, avail)
  \/ \E avail \in {"all", "cut"}, nxt \in AllWords : PTH_Sod(avail, nxt)
  \/ \E initOk \in BOOLEAN : PTH_Finish(initOk)

Spec == Init /\ [][Next]_vars

(***************************************************************************)
(* Claims about QCD/QCC and COD/COC scoping.                               *)
(***************************************************************************)
\* precedence of the marker read by the step into state "last"
PrecOfCall(l) == Prec(l.op = "QCC", l.fth)

\* C1: a QCD or QCC marker never changes the quantization parameters
\* (qntsty, numgbits, numStepSizes, stepsizes, fromQCC, fromTileHeader) of a
\* component whose parameters were written by a marker of higher precedence
\* (main-QCD < main-QCC < tile-QCD < tile-QCC), be it the addressed component
\* or a component read_qcd copies to.
C1_HigherPrecedenceKept ==
  [][ \A c \in Comps :
        ( /\ last'.op \in {"QCD", "QCC"}
          /\ Quant(get_current_decode_tcp'.tccps[c]) #
               Quant(get_current_decode_tcp.tccps[c]) )
        => CurScope.q[c] <= PrecOfCall(last') ]_vars

\* C1 witness: a tile-header QCD was read successfully, bound component 0, and
\* left alone another component that a tile-header QCC had bound to other values
C1_Witness ==
  /\ last.op = "QCD" /\ last.fth /\ last.ok
  /\ CurScope.q[0] = 3
  /\ \E c \in Comps \ {0} :
       /\ CurScope.q[c] = 4
       /\ get_current_decode_tcp.tccps[c].stepsizes #
            get_current_decode_tcp.tccps[0].stepsizes

\* a QCD body that is well formed on its own: a known style and a body that
\* holds a whole number (at least one) of step sizes of that style
WellFormedQcd(d) ==
  /\ Len(d) >= 2
  /\ d[1] % 32 <= J2K_CCP_QNTSTY_SEQNT
  /\ (d[1] % 32 = J2K_CCP_QNTSTY_SIQNT) => (Len(d) = 3)
  /\ (d[1] % 32 = J2K_CCP_QNTSTY_SEQNT) => ((Len(d) - 1) % 2 = 0)

\* the quantization values of every component of a TCP
QuantValues(tcp) ==
  [c \in Comps |-> [qntsty |-> tcp.tccps[c].qntsty,
                    numgbits |-> tcp.tccps[c].numgbits,
                    numStepSizes |-> tcp.tccps[c].numStepSizes,
                    stepsizes |-> tcp.tccps[c].stepsizes]]

\* C10 (as claimed): in any header state, reading a well-formed QCD marker
\* twice in succession succeeds both times and the second read leaves every
\* component's qntsty, numgbits, numStepSizes and stepsizes as the first left them.
C10_TwiceSucceedsAndSame ==
  (InHeader /\ last.ok) =>
    \A d \in QcdMenu :
      WellFormedQcd(d) =>
        LET r1 == read_qcd(get_current_decode_tcp, isDecodingTilePartHeader, d)
            r2 == read_qcd(r1.tcp, isDecodingTilePartHeader, d)
        IN  r1.ok /\ r2.ok /\ QuantValues(r2.tcp) = QuantValues(r1.tcp)

\* C10 (what the code does keep): when the first read succeeds, the second
\* succeeds as well and changes nothing
C10_IdempotentWhenFirstSucceeds ==
  (InHeader /\ last.ok) =>
    \A d \in QcdMenu :
      LET r1 == read_qcd(get_current_decode_tcp, isDecodingTilePartHeader, d)
          r2 == read_qcd(r1.tcp, isDecodingTilePartHeader, d)
      IN  r1.ok => (r2.ok /\ r2.tcp = r1.tcp)

\* scope of the header being read: main 1, tile 2
HeaderScope(fth) == IF fth THEN 2 ELSE 1

\* C2 (as claimed): a COD marker that is accepted leaves alone the coding parameters
\* (numresolutions, cblkw, cblkh, cblk_sty, qmfbid, precinct exponents) of every
\* component that a COC marker of the same or a higher scope has set.
C2_CodKeepsCocBound ==
  [][ \A c \in Comps :
        ( /\ last'.op = "COD" /\ last'.ok
          /\ CurScope.coc[c] >= HeaderScope(last'.fth) )
        => Coding(get_current_decode_tcp'.tccps[c]) =
             Coding(get_current_decode_tcp.tccps[c]) ]_vars

(***************************************************************************)
(* Claims about the marker loops.                                          *)
(***************************************************************************)
\* the current state is in the legal state mask of the current marker's handler
LegalNow == state \cap get_marker_handler(m_curr_marker).states # {}

\* the coding parameters of the main header and of every tile
AllParams == <<m_default_tcp, tcps>>

\* C3: in parseTileHeaderMarkers a marker handler runs only when the current
\* decompressor state is in the handler's legal state mask; when the state is
\* outside the mask no handler runs and no coding parameter changes, and once
\* the segment's length has been read the call returns false.
C3_HandlerOnlyInLegalState ==
  [][ pc = "inner" =>
        /\ (last'.op # "none") => LegalNow
        /\ (get_marker_handler(m_curr_marker) # NoHandler /\ ~LegalNow) =>
             /\ last' = NoCall
             /\ AllParams' = AllParams
             /\ (marker_size' >= 3) => (pc' = "done" /\ ret' = "false") ]_vars

\* C3 witness: a tile-part header held a marker whose handler is legal in the
\* main header only, and the call failed without running it
C3_Witness ==
  /\ pc = "done" /\ ret = "false"
  /\ err = "not compliant with its expected position"
  /\ state = {"TPH"}
  /\ m_curr_marker = J2K_MS_CRG
  /\ last = NoCall

\* the unknown marker read_unk was called for heads the entries it added, and
\* every entry covers a whole number of words
UnkLogged(marker) ==
  /\ Len(unk') >= 1
  /\ unk'[1][1] = marker
  /\ \A i \in 1 .. Len(unk') : unk'[i][2] >= 2 /\ unk'[i][2] % 2 = 0

\* the step found the stream at its end
StreamEnded ==
  \/ eos' # "none"
  \/ err' \in {"Unable to read unknown marker", "read_short", "Stream too short"}

RanOut ==
  \/ eos # "none"
  \/ err \in {"read_short", "Stream too short", "readMarker"}

C6_ShortLengthRejected ==
  [][ pc = "inner" =>
        /\ (marker_size' \in 0 .. 2) =>
             /\ pc' = "done" /\ ret' = "false"
             /\ err' = "marker size"
             /\ last' = NoCall
             /\ AllParams' = AllParams
             /\ tilePartDataLength' = tilePartDataLength
        /\ (last'.op # "none") => marker_size' >= 3 ]_vars

\* C6 witness: a tile-part header marker with a handler legal there came with
\* L = 2, and the call failed with tilePartDataLength still that of the SOT
C6_Witness ==
  /\ pc = "done" /\ ret = "false"
  /\ marker_size = 2
  /\ state = {"TPH"}
  /\ m_curr_marker = J2K_MS_QCD
  /\ tilePartDataLength = 48 - sot_marker_segment_len

\* a component that is irreversible (qmfbid = 0) and has no quantization
LossyNoQuant(tccp) == tccp.qmfbid = 0 /\ tccp.qntsty = J2K_CCP_QNTSTY_NOQNT

\* C7: whenever parseTileHeaderMarkers returns true with *canDecompress = true,
\* no component of the current tile has qmfbid = 0 with qntsty = NOQNT; with
\* such a component in the current tile the call does not return true.
C7_NoLossyWithoutQuant ==
  (pc = "done" /\ "MH" \notin state /\ cur # NoTile) =>
    /\ (ret = "true" /\ canDecompress = TRUE) =>
         \A c \in Comps : ~LossyNoQuant(tcps[cur].tccps[c])
    /\ (\E c \in Comps : LossyNoQuant(tcps[cur].tccps[c])) => ret # "true"

\* C7 witness: a tile with an irreversible component that carries quantization
\* was let through
C7_Witness ==
  /\ pc = "done" /\ ret = "true" /\ canDecompress = TRUE
  /\ \E c \in Comps : /\ tcps[cur].tccps[c].qmfbid = 0
                      /\ tcps[cur].tccps[c].qntsty = J2K_CCP_QNTSTY_SIQNT

\* decompositions of the components of tile t that satisfy P, 0 when none does
MaxDecomps(t, P(_)) ==
  SetMax({tcps[t].tccps[c].numresolutions - 1 :
            c \in {k \in Comps : tcps[t].tccps[k].numresolutions # 0 /\ P(k)}})

\* C8 (as claimed): when the main QCD style is not SIQNT, decompression is
\* permitted only if main_qcd_numStepSizes >= 3*D + 1, and the main QCD test
\* fails the call only if main_qcd_numStepSizes < 3*D + 1, where D is the
\* greatest number of decompositions over exactly the components in main-QCD
\* scope: those no main QCC, tile QCD or tile QCC has written.
C8_MainQcdStepCheck ==
  (pc = "done" /\ "MH" \notin state /\ cur # NoTile
     /\ tcps[cur].main_qcd_qntsty # J2K_CCP_QNTSTY_SIQNT) =>
    LET InMainScope(k) == scope.tile[cur].q[k] <= 1
        D == MaxDecomps(cur, InMainScope)
    IN  /\ (ret = "true" /\ canDecompress = TRUE) =>
             tcps[cur].main_qcd_numStepSizes >= 3 * D + 1
        /\ (err = "From Main QCD marker") =>
             tcps[cur].main_qcd_numStepSizes < 3 * D + 1

\* C9 (as claimed): when a tile-part header carried a QCD whose style is not
\* SIQNT, decompression of the tile is permitted only if that QCD's number of
\* step sizes is at least 3*Dt + 1, Dt the greatest number of decompositions
\* over the components no tile QCC has written, whatever the main QCD's style.
C9_TileQcdStepCheck ==
  (pc = "done" /\ "MH" \notin state /\ cur # NoTile
     /\ ret = "true" /\ canDecompress = TRUE
     /\ scope.tile[cur].tqcd # NoQcd
     /\ scope.tile[cur].tqcd.sty # J2K_CCP_QNTSTY_SIQNT) =>
    LET NotTileQcc(k) == scope.tile[cur].q[k] # 4
    IN  scope.tile[cur].tqcd.n >= 3 * MaxDecomps(cur, NotTileQcc) + 1

(***************************************************************************)
(* TileLengthMarkers: the index of the TLM markers.                        *)
(***************************************************************************)
\* TLM(2) + Ltlm(2) + Ztlm(1) + Stlm(1)
tlm_marker_start_bytes == 6

\* a TL_INFO_VEC pointer held by the map: a vector of entries, or null
Vec(items) == [null |-> FALSE, items |-> items]
NullVec == [null |-> TRUE, items |-> << >>]
\* curr_vec_ names the marker index whose vector it points to; NoVec is nullptr
NoVec == -1
TilePartLengthInfo(tileIndex, length) == [tileIndex |-> tileIndex, length |-> length]
\* the nullptr that getNext returns
NoEntry == [tileIndex |-> -1, length |-> -1]

MapPut(m, k, v) == [x \in DOMAIN m \cup {k} |-> IF x = k THEN v ELSE m[x]]

\* the keys of a std::map in iteration order
RECURSIVE KeysInOrder(_)
KeysInOrder(S) ==
  IF S = {} THEN << >>
  ELSE KeysInOrder(S \ {CHOOSE x \in S : \A y \in S : y <= x})
         \o <<CHOOSE x \in S : \A y \in S : y <= x>>

NewTileLengthMarkers ==
  [markers_ |-> << >>, markerIndex_ |-> 0, markerTilePartIndex_ |-> 0,
   curr_vec_ |-> NoVec, valid_ |-> FALSE, hasTileIndices_ |-> FALSE,
   tileCount_ |-> 0]

\* grk_read<uint32_t>(data, &v, n): n bytes, most significant first
RECURSIVE grk_read(_, _, _)
grk_read(data, pos, n) ==
  IF n = 0 THEN 0 ELSE grk_read(data, pos, n - 1) * 256 + data[pos + n - 1]

\* the inner loop of validate over one vector: the tile index reached, -1 when
\* an entry is neither the current tile index nor the next one
RECURSIVE validateVec(_, _, _)
validateVec(v, j, tileIndex) ==
  IF j > Len(v) THEN tileIndex
  ELSE IF v[j].tileIndex = tileIndex THEN validateVec(v, j + 1, tileIndex)
  ELSE IF v[j].tileIndex # tileIndex + 1 THEN -1
  ELSE validateVec(v, j + 1, tileIndex + 1)

\* the outer loop of validate over the map; -2 when it dereferences a null vector
RECURSIVE validateLoop(_, _, _, _)
validateLoop(m, keys, i, tileIndex) ==
  IF tileIndex < 0 \/ i > Len(keys) THEN tileIndex
  ELSE IF m[keys[i]].null THEN -2
  ELSE validateLoop(m, keys, i + 1, validateVec(m[keys[i]].items, 1, tileIndex))

validateEnd(o, numTiles, r) ==
  [o   |-> [o EXCEPT !.valid_ = (r >= 0 /\ r = numTiles - 1)],
   ret |-> (r >= 0 /\ r = numTiles - 1),
   ub  |-> (r = -2)]

validate(o, numTiles) ==
  validateEnd(o, numTiles,
              validateLoop(o.markers_, KeysInOrder(DOMAIN o.markers_), 1, 0))

isValid(o) == o.valid_

\* push(i_TLM, info): append to the marker's vector, or store a new vector
push(o, i_TLM, info) ==
  IF i_TLM \in DOMAIN o.markers_
    THEN IF o.markers_[i_TLM].null
           THEN [o |-> o, ub |-> TRUE]
           ELSE [o  |-> [o EXCEPT !.markers_[i_TLM] = Vec(Append(@.items, info))],
                 ub |-> FALSE]
    ELSE [o  |-> [o EXCEPT !.markers_ = MapPut(@, i_TLM, Vec(<<info>>))],
          ub |-> FALSE]

IllegalL(L) == (L % 16 # 0) \/ (L \div 128 # 0)
L_LTP(L) == (L \div 64) % 2
L_iT(L) == (L \div 16) % 4
bytesPerTilePartLength(L) == IF L_LTP(L) # 0 THEN 4 ELSE 2

\* the warning "Cannot mix TLM markers with and without tile part indices"
MixesTileIndices(o, L) ==
  /\ DOMAIN o.markers_ # {}
  /\ \/ o.hasTileIndices_ /\ L_iT(L) = 0
     \/ ~o.hasTileIndices_ /\ L_iT(L) # 0

readPresence(o, L) ==
  IF DOMAIN o.markers_ = {} THEN [o EXCEPT !.hasTileIndices_ = (L_iT(L) # 0)]
  ELSE IF MixesTileIndices(o, L) THEN [o EXCEPT !.valid_ = FALSE]
  ELSE o

\* one entry: the tile index read or counted, and the tile-part length
readInfo(o, data, pos, L) ==
  IF o.hasTileIndices_
    THEN TilePartLengthInfo(
           (IF L_iT(L) # 0 THEN grk_read(data, pos, L_iT(L)) ELSE 0) % 65536,
           grk_read(data, pos + L_iT(L), bytesPerTilePartLength(L)))
    ELSE TilePartLengthInfo(
           o.tileCount_,
           grk_read(data, pos + L_iT(L), bytesPerTilePartLength(L)))

countTile(o) ==
  IF o.hasTileIndices_ THEN o ELSE [o EXCEPT !.tileCount_ = (@ + 1) % 65536]

RECURSIVE readParts(_, _, _, _)
readParts(r, data, i, numTileParts) ==
  IF i = numTileParts \/ r.ub THEN r
  ELSE readParts(
         push(countTile(r.o), data[1],
              readInfo(r.o, data,
                       3 + i * (bytesPerTilePartLength(data[2]) + L_iT(data[2])),
                       data[2])),
         data, i + 1, numTileParts)

readFail(o, e) == [o |-> o, ok |-> FALSE, ub |-> FALSE, err |-> e]
readDone(r) == [o |-> r.o, ok |-> TRUE, ub |-> r.ub, err |-> "none"]

readBody(o, data, quotient) ==
  IF (Len(data) - 2) % quotient # 0 THEN readFail(o, "Error reading TLM marker")
  ELSE readDone(readParts([o |-> o, ub |-> FALSE], data, 0,
                          ((Len(data) - 2) \div quotient) % 256))

\* TileLengthMarkers::read(headerData, header_size): data holds the
\* header_size bytes of the segment after Ltlm
read(o, data) ==
  IF Len(data) < tlm_marker_start_bytes
    THEN readFail(o, "Error reading TLM marker")
  ELSE IF IllegalL(data[2])
    THEN readFail(o, "Illegal L value in TLM marker")
  ELSE readBody(readPresence(o, data[2]), data,
                bytesPerTilePartLength(data[2]) + L_iT(data[2]))

TLM_rewind(o) ==
  [o EXCEPT !.markerIndex_ = 0, !.markerTilePartIndex_ = 0,
            !.curr_vec_ = IF 0 \in DOMAIN o.markers_ /\ ~o.markers_[0].null
                            THEN 0 ELSE NoVec]

\* markers_->operator[](markerIndex_): a missing key is inserted with a null
\* vector pointer
getNextVec(o) ==
  IF o.markerIndex_ \in DOMAIN o.markers_
    THEN [o EXCEPT !.curr_vec_ = IF o.markers_[o.markerIndex_].null
                                   THEN NoVec ELSE o.markerIndex_,
                   !.markerTilePartIndex_ = 0]
    ELSE [o EXCEPT !.markers_ = MapPut(@, o.markerIndex_, NullVec),
                   !.curr_vec_ = NoVec,
                   !.markerTilePartIndex_ = 0]

getNextAdvance(o) ==
  IF o.markerTilePartIndex_ = Len(o.markers_[o.curr_vec_].items)
    THEN IF o.markerIndex_ + 1 < Cardinality(DOMAIN o.markers_)
           THEN getNextVec([o EXCEPT !.markerIndex_ = @ + 1])
           ELSE [o EXCEPT !.markerIndex_ = @ + 1, !.curr_vec_ = NoVec]
    ELSE o

getNextServe(o) ==
  IF o.curr_vec_ # NoVec
    THEN [o  |-> [o EXCEPT !.markerTilePartIndex_ = @ + 1],
          tl |-> o.markers_[o.curr_vec_].items[o.markerTilePartIndex_ + 1]]
    ELSE [o |-> o, tl |-> NoEntry]

getNext(o) ==
  IF ~o.valid_ THEN [o |-> o, tl |-> NoEntry]
  ELSE IF o.curr_vec_ # NoVec THEN getNextServe(getNextAdvance(o))
  ELSE [o |-> o, tl |-> NoEntry]

\* the loop of skipTo: found tells that it ended on an entry of the tile
RECURSIVE skipLoop(_, _, _)
skipLoop(r, skip, skipTileIndex) ==
  IF r.tl # NoEntry /\ r.tl.tileIndex # skipTileIndex
    THEN IF r.tl.length = 0
           THEN [o |-> r.o, found |-> FALSE, skip |-> skip, err |-> "corrupt TLM marker"]
           ELSE skipLoop(getNext(r.o), skip + r.tl.length, skipTileIndex)
    ELSE [o |-> r.o, found |-> r.tl # NoEntry, skip |-> skip, err |-> "none"]

skipTo(o, skipTileIndex) == skipLoop(getNext(TLM_rewind(o)), 0, skipTileIndex)

(***************************************************************************)
(* SpecTlm: TLM markers are read into one TileLengthMarkers object, which  *)
(* is validated and walked in any order.                                   *)
(***************************************************************************)
MaxTlmIndex == 2
MaxTlmEntries == 2
MaxTlmReads == 2
MaxNumTiles == 2

\* the Stlm bytes tried: L_iT = 0, 1, 2, 3 with 16-bit lengths, 32-bit lengths,
\* and two bytes with a bit set outside 0x70
StlmMenu == {0, 16, 32, 48, 64, 8, 128}
\* the tile indices and tile-part lengths written into the entries
TlmTileMenu == 0..(MaxNumTiles - 1)
TlmLengthMenu == {0, 260}
FirstSotPositions == {0, 7}

\* v as n bytes, most significant first
RECURSIVE BigEndian(_, _)
BigEndian(v, n) ==
  IF n = 0 THEN << >> ELSE Append(BigEndian(v \div 256, n - 1), v % 256)

\* the bytes of k entries under Stlm = L
RECURSIVE TlmEntryBytes(_, _)
TlmEntryBytes(L, k) ==
  IF k = 0 THEN {<< >>}
  ELSE {e \o BigEndian(t, L_iT(L)) \o BigEndian(len, bytesPerTilePartLength(L)) :
          e \in TlmEntryBytes(L, k - 1), t \in TlmTileMenu, len \in TlmLengthMenu}

\* the segments: Ztlm, Stlm, the entries, and possibly one byte too many
TlmSegments ==
  UNION {{<<z, L>> \o e \o pad : e \in TlmEntryBytes(L, k)} :
           z \in 0..MaxTlmIndex, L \in StlmMenu, k \in 1..MaxTlmEntries,
           pad \in {<< >>, <<0>>}}

NoTlmCall ==
  [op |-> "none", ok |-> TRUE, ub |-> FALSE, mixed |-> FALSE, L |-> 0, size |-> 0,
   arg |-> 0, tl |-> NoEntry, seek |-> -1, seekOk |-> FALSE, reads |-> 0]

InitTlm ==
  /\ InitVars /\ state = {"MH"} /\ pc = "handlers" /\ m_curr_marker = 0
  /\ tlm = NewTileLengthMarkers
  /\ tlmOut = NoTlmCall
  /\ pl = NoObject /\ plOut = NoObject
  /\ sched = NoObject /\ worker = NoObject /\ block = NoObject
  /\ NoWork

TlmIdle == UNCHANGED <<hvars, pvars, pl, plOut, sched, worker, block, wvars>>

\* read_tlm hands a TLM segment to read
TlmRead(data) ==
  /\ ~tlmOut.ub /\ tlmOut.reads < MaxTlmReads
  /\ \E r \in {read(tlm, data)} :
       /\ tlm' = r.o
       /\ tlmOut' = [NoTlmCall EXCEPT
            !.op = "read", !.ok = r.ok, !.ub = r.ub,
            !.mixed = tlmOut.mixed
                        \/ (Len(data) >= tlm_marker_start_bytes
                              /\ ~IllegalL(data[2])
                              /\ MixesTileIndices(tlm, data[2])),
            !.L = data[2], !.size = Len(data), !.reads = tlmOut.reads + 1]
  /\ TlmIdle

\* validate(numTiles); iterating over a null vector is undefined
TlmValidate(numTiles) ==
  /\ ~tlmOut.ub
  /\ \E r \in {validate(tlm, numTiles)} :
       \E v \in IF r.ub THEN BOOLEAN ELSE {r.ret} :
         /\ tlm' = [r.o EXCEPT !.valid_ = v]
         /\ tlmOut' = [NoTlmCall EXCEPT
              !.op = "validate", !.ok = v, !.ub = r.ub, !.arg = numTiles,
              !.mixed = tlmOut.mixed, !.reads = tlmOut.reads]
  /\ TlmIdle

TlmRewind ==
  /\ ~tlmOut.ub
  /\ tlm' = TLM_rewind(tlm)
  /\ tlmOut' = [NoTlmCall EXCEPT !.op = "rewind", !.mixed = tlmOut.mixed,
                                 !.reads = tlmOut.reads]
  /\ TlmIdle

TlmGetNext ==
  /\ ~tlmOut.ub
  /\ \E r \in {getNext(tlm)} :
       /\ tlm' = r.o
       /\ tlmOut' = [NoTlmCall EXCEPT
            !.op = "getNext", !.ok = (r.tl # NoEntry), !.tl = r.tl,
            !.mixed = tlmOut.mixed, !.reads = tlmOut.reads]
  /\ TlmIdle

\* skipTo(skipTileIndex, stream, firstSotPos); seekOk is what stream->seek returns
TlmSkipTo(skipTileIndex, firstSotPos, seekOk) ==
  /\ ~tlmOut.ub
  /\ \E r \in {skipTo(tlm, skipTileIndex)} :
       /\ tlm' = r.o
       /\ tlmOut' = [NoTlmCall EXCEPT
            !.op = "skipTo", !.ok = (r.found /\ seekOk), !.arg = skipTileIndex,
            !.size = firstSotPos, !.seekOk = seekOk,
            !.seek = IF r.found THEN firstSotPos + r.skip ELSE -1,
            !.mixed = tlmOut.mixed, !.reads = tlmOut.reads]
  /\ TlmIdle

NextTlm ==
  \/ \E data \in TlmSegments : TlmRead(data)
  \/ \E n \in 0..MaxNumTiles : TlmValidate(n)
  \/ TlmRewind
  \/ TlmGetNext
  \/ \E t \in 0..MaxNumTiles, p \in FirstSotPositions, s \in BOOLEAN : TlmSkipTo(t, p, s)

SpecTlm == InitTlm /\ [][NextTlm]_vars

(***************************************************************************)
(* Claims about the TLM index.                                             *)
(***************************************************************************)
RECURSIVE FlatVecs(_, _, _)
FlatVecs(m, keys, i) ==
  IF i > Len(keys) THEN << >> ELSE m[keys[i]].items \o FlatVecs(m, keys, i + 1)

\* every stored entry, by marker index and then by insertion order
AllEntries(o) == FlatVecs(o.markers_, KeysInOrder(DOMAIN o.markers_), 1)

NonDecreasingTiles(es) ==
  \A i \in 1..(Len(es) - 1) : es[i].tileIndex <= es[i + 1].tileIndex

TilesOf(es) == {es[i].tileIndex : i \in 1..Len(es)}

\* C11: validate(numTiles) returns true, and sets valid_, exactly when the
\* tile indices of the stored entries, read by marker index and insertion
\* order, never decrease and are exactly the tiles 0..numTiles-1; it returns
\* false when some tile, tile 0 included, has no entry, and for an empty index.
C11_ValidateIffExactCover ==
  (tlmOut.op = "validate" /\ ~tlmOut.ub) =>
     /\ isValid(tlm) = tlmOut.ok
     /\ tlmOut.ok <=> /\ AllEntries(tlm) # << >>
                      /\ NonDecreasingTiles(AllEntries(tlm))
                      /\ TilesOf(AllEntries(tlm)) = 0..(tlmOut.arg - 1)

\* C12: once read has seen TLM markers that disagree on the presence of tile
\* indices the index is invalid for good: isValid() is false after every later
\* read and validate, and getNext and skipTo serve no entry.
C12_MixedStaysInvalid ==
  tlmOut.mixed =>
     /\ ~isValid(tlm)
     /\ tlmOut.tl = NoEntry
     /\ tlmOut.seek = -1

LegalStlm(L) == IllegalL(L) = FALSE /\ L_iT(L) \in {0, 1, 2}

\* C13: read accepts Stlm only in the layout 0 L_LTP L_iT 0000 with L_iT in
\* {0, 1, 2}; for any other value it returns false and stores no entry; for an
\* accepted value every entry takes L_iT index bytes and 2 or 4 length bytes.
C13_OnlyLegalStlmAccepted ==
  [][ tlmOut'.op = "read" =>
        /\ tlmOut'.ok => LegalStlm(tlmOut'.L)
        /\ ~LegalStlm(tlmOut'.L) => (~tlmOut'.ok /\ tlm'.markers_ = tlm.markers_)
        /\ (tlmOut'.ok /\ ~tlmOut'.ub) =>
              (Len(AllEntries(tlm')) - Len(AllEntries(tlm)))
                  * (L_iT(tlmOut'.L) + bytesPerTilePartLength(tlmOut'.L))
                = tlmOut'.size - 2 ]_vars

\* the position of the first entry of tile t, 0 when there is none
FirstOfTile(es, t) ==
  IF \E i \in 1..Len(es) : es[i].tileIndex = t
    THEN CHOOSE i \in 1..Len(es) :
           es[i].tileIndex = t /\ \A j \in 1..(i - 1) : es[j].tileIndex # t
    ELSE 0

RECURSIVE SumLengths(_, _)
SumLengths(es, n) == IF n = 0 THEN 0 ELSE SumLengths(es, n - 1) + es[n].length

\* C14: on a validated index skipTo(t, stream, firstSotPos) seeks to
\* firstSotPos plus the lengths of all the stored entries that precede the
\* first entry of tile t, and returns what the seek returns; it returns false
\* and does not seek when no entry has tile t, when a preceding entry has
\* length 0, or when the index is not valid.
C14_SkipToSeeksPastPrecedingEntries ==
  tlmOut.op = "skipTo" =>
     LET es == AllEntries(tlm)
         f  == FirstOfTile(es, tlmOut.arg)
     IN  IF /\ isValid(tlm)
            /\ f # 0
            /\ \A j \in 1..(f - 1) : es[j].length # 0
           THEN /\ tlmOut.seek = tlmOut.size + SumLengths(es, f - 1)
                /\ tlmOut.ok = tlmOut.seekOk
           ELSE /\ tlmOut.seek = -1
                /\ ~tlmOut.ok

(***************************************************************************)
(* SpecTlmLong: TLM segments with one entry and with more than 255         *)
(* entries are read into one TileLengthMarkers object.                     *)
(***************************************************************************)
MaxLongEntries == 257

\* s repeated k times
Repeat(s, k) == [i \in 1..(k * Len(s)) |-> s[((i - 1) % Len(s)) + 1]]

\* one entry under Stlm = L: tile index t and tile-part length len
TlmEntry(L, t, len) ==
  BigEndian(t, L_iT(L)) \o BigEndian(len, bytesPerTilePartLength(L))

\* the Stlm bytes with L_iT = 0, 1, 2 and 16-bit or 32-bit lengths
LongStlmMenu == {0, 16, 32, 64, 80}

\* the segments: Ztlm, Stlm and k equal entries
TlmLongSegments ==
  {<<z, L>> \o Repeat(TlmEntry(L, 0, 260), k) :
     z \in 0..MaxTlmIndex, L \in LongStlmMenu,
     k \in {1, MaxLongEntries - 1, MaxLongEntries}}

NextTlmLong == \E data \in TlmLongSegments : TlmRead(data)

SpecTlmLong == InitTlm /\ [][NextTlmLong]_vars

\* number of entries stored in the index, over all markers
RECURSIVE CountEntries(_, _)
CountEntries(m, keys) ==
  IF keys = {} THEN 0
  ELSE LET k == CHOOSE x \in keys : TRUE
       IN  Len(m[k].items) + CountEntries(m, keys \ {k})

TotalEntries(o) == CountEntries(o.markers_, DOMAIN o.markers_)

\* the entries a segment of header_size bytes with Stlm = L holds
EntriesIn(header_size, L) ==
  (header_size - 2) \div (bytesPerTilePartLength(L) + L_iT(L))

\* C38 (as claimed): a successful read stores every entry of the segment: the
\* number of entries pushed is (header_size - 2) / (bytesPerTilePartLength +
\* L_iT), also when that is more than 255.
C38_EveryEntryRecorded ==
  [][ (tlmOut'.op = "read" /\ tlmOut'.ok) =>
        TotalEntries(tlm') - TotalEntries(tlm) = EntriesIn(tlmOut'.size, tlmOut'.L) ]_vars

\* C38 (what the code does keep): the number of entries pushed is that count
\* modulo 256
C38_EntriesModulo256 ==
  [][ (tlmOut'.op = "read" /\ tlmOut'.ok) =>
        TotalEntries(tlm') - TotalEntries(tlm)
          = EntriesIn(tlmOut'.size, tlmOut'.L) % 256 ]_vars

(***************************************************************************)
(* PacketLengthMarkers: the packet lengths of the PLT and PLM markers.     *)
(***************************************************************************)
GRK_PL_MARKER_PLM == "PLM"
GRK_PL_MARKER_PLT == "PLT"

\* a PL_MARKERS entry holds a PL_MARKER pointer (marker_): Vec or NullVec;
\* currMarker_ names the marker index whose vector it points to, NoVec if null
NewPacketLengthMarkers ==
  [markers_ |-> << >>, markerIndex_ |-> 0, currMarker_ |-> NoVec,
   sequential_ |-> FALSE, packetIndex_ |-> 0, packet_len_ |-> 0]

\* a | b on n bits
RECURSIVE BitOr(_, _, _)
BitOr(a, b, n) ==
  IF n = 0 THEN 0
  ELSE 2 * BitOr(a \div 2, b \div 2, n - 1)
         + (IF a % 2 = 1 \/ b % 2 = 1 THEN 1 ELSE 0)

\* packet_len_ |= (Iplm & 0x7f)
OrLow7(packet_len, Iplm) ==
  (packet_len \div 128) * 128 + BitOr(packet_len % 128, Iplm % 128, 7)

\* packet_len_ <<= 7 on a uint32_t
Shl7(packet_len) == (packet_len % 33554432) * 128

\* readInitSequential with the sequence tested anew at every marker, also
\* after it was broken
readInitSequential_Retest(o, index) ==
  IF DOMAIN o.markers_ = {} THEN index = 0
  ELSE Cardinality(DOMAIN o.markers_) % 256 = index

\* readInit: where the marker is stored and whether the sequence still holds
readInitSequential(o, index) ==
  IF DOMAIN o.markers_ = {} THEN index = 0
  ELSE o.sequential_ /\ (Cardinality(DOMAIN o.markers_) % 256 = index)

\* readInit without the test of the broken sequence
readInitBroken_Never(o, index) == FALSE

readInitBroken(o, index) ==
  /\ DOMAIN o.markers_ # {}
  /\ o.sequential_
  /\ ~readInitSequential(o, index)
  /\ Cardinality(DOMAIN o.markers_) > 256

readInitIndex(o, index) ==
  IF DOMAIN o.markers_ # {} /\ readInitSequential(o, index)
    THEN Cardinality(DOMAIN o.markers_)
    ELSE index

\* the end of readInit: the marker's vector is looked up or created
readInitMarker(o) ==
  IF o.markerIndex_ \in DOMAIN o.markers_
    THEN [o EXCEPT !.packet_len_ = 0,
                   !.currMarker_ = IF o.markers_[o.markerIndex_].null
                                     THEN NoVec ELSE o.markerIndex_]
    ELSE [o EXCEPT !.packet_len_ = 0,
                   !.currMarker_ = o.markerIndex_,
                   !.markers_ = MapPut(@, o.markerIndex_, Vec(<< >>))]

readInit(o, index, type) ==
  IF Cardinality(DOMAIN o.markers_) = 255 /\ type = GRK_PL_MARKER_PLM
    THEN [o |-> [o EXCEPT !.markerIndex_ = index], ok |-> FALSE]
  ELSE IF readInitBroken(o, index)
    THEN [o |-> [o EXCEPT !.markerIndex_ = index, !.sequential_ = FALSE],
          ok |-> FALSE]
  ELSE [o  |-> readInitMarker([o EXCEPT !.markerIndex_ = readInitIndex(o, index),
                                        !.sequential_ = readInitSequential(o, index)]),
        ok |-> TRUE]

\* readNext on r = [o, ub]: pushing through a null currMarker_ is undefined
readNextDo(r, Iplm, len) ==
  IF Iplm >= 128
    THEN [r EXCEPT !.o.packet_len_ = Shl7(len)]
  ELSE IF r.o.currMarker_ = NoVec
    THEN [r EXCEPT !.ub = TRUE, !.o.packet_len_ = 0]
  ELSE [r EXCEPT !.o.markers_[r.o.currMarker_] = Vec(Append(@.items, len)),
                 !.o.packet_len_ = 0]

readNext(r, Iplm) == readNextDo(r, Iplm, OrLow7(r.o.packet_len_, Iplm))

\* readNext on the bytes data[from..to]
RECURSIVE readBytes(_, _, _, _)
readBytes(r, data, from, to) ==
  IF from > to THEN r ELSE readBytes(readNext(r, data[from]), data, from + 1, to)

plFail(o, ub, e) == [o |-> o, ok |-> FALSE, ub |-> ub, err |-> e]
plDone(o, ub) == [o |-> o, ok |-> TRUE, ub |-> ub, err |-> "none"]

readPLTEnd(r) ==
  IF r.o.packet_len_ # 0 THEN plFail(r.o, r.ub, "Malformed PLT marker segment")
  ELSE plDone(r.o, r.ub)

readPLTBody(i, data) ==
  IF ~i.ok THEN plFail(i.o, FALSE, "readInit")
  ELSE readPLTEnd(readBytes([o |-> i.o, ub |-> FALSE], data, 2, Len(data)))

\* readPLT(headerData, header_size): data holds the header_size bytes
readPLT(o, data) ==
  IF Len(data) < 1 THEN plFail(o, FALSE, "PLT marker segment too short")
  ELSE readPLTBody(readInit(o, data[1], GRK_PL_MARKER_PLT), data)

\* the while loop of readPLM; pos is the position of the next Nplm and
\* header_size the bytes left
RECURSIVE readPLMLoop(_, _, _, _)
readPLMChunk(r, data, pos, header_size) ==
  IF r.o.packet_len_ # 0 THEN plFail(r.o, r.ub, "Malformed PLM marker segment")
  ELSE readPLMLoop(r, data, pos + 1 + data[pos], header_size - (1 + data[pos]))

readPLMLoop(r, data, pos, header_size) ==
  IF header_size <= 0 THEN plDone(r.o, r.ub)
  ELSE IF header_size < 1 + data[pos]
    THEN plFail(r.o, r.ub, "Malformed PLM marker segment")
  ELSE readPLMChunk(readBytes(r, data, pos + 1, pos + data[pos]),
                    data, pos, header_size)

readPLMBody(i, data) ==
  IF ~i.ok THEN plFail(i.o, FALSE, "readInit")
  ELSE readPLMLoop([o |-> i.o, ub |-> FALSE], data, 2, Len(data) - 1)

readPLM(o, data) ==
  IF Len(data) < 1 THEN plFail(o, FALSE, "PLM marker segment too short")
  ELSE readPLMBody(readInit(o, data[1], GRK_PL_MARKER_PLM), data)

PL_rewind(o) ==
  [o EXCEPT !.packetIndex_ = 0, !.markerIndex_ = 0,
            !.currMarker_ = IF 0 \in DOMAIN o.markers_ /\ ~o.markers_[0].null
                              THEN 0 ELSE NoVec]

\* markers_->operator[](markerIndex_).marker_: a missing key is inserted with a
\* default PacketLengthMarkerInfo, whose marker_ is null
popNextMarker(o) ==
  IF o.markerIndex_ \in DOMAIN o.markers_
    THEN [o EXCEPT !.currMarker_ = IF o.markers_[o.markerIndex_].null
                                     THEN NoVec ELSE o.markerIndex_,
                   !.packetIndex_ = 0]
    ELSE [o EXCEPT !.markers_ = MapPut(@, o.markerIndex_, NullVec),
                   !.currMarker_ = NoVec,
                   !.packetIndex_ = 0]

popAdvance(o) ==
  IF o.packetIndex_ = Len(o.markers_[o.currMarker_].items)
    THEN IF o.markerIndex_ + 1 < Cardinality(DOMAIN o.markers_)
           THEN popNextMarker([o EXCEPT !.markerIndex_ = @ + 1])
           ELSE [o EXCEPT !.markerIndex_ = @ + 1, !.currMarker_ = NoVec]
    ELSE o

\* rc = currMarker_->operator[](packetIndex_++); reading past the end of the
\* vector is undefined (rc is then -1 here and chosen by the caller)
popServe(o) ==
  IF o.currMarker_ = NoVec THEN [o |-> o, rc |-> 0, ub |-> FALSE]
  ELSE IF o.packetIndex_ < Len(o.markers_[o.currMarker_].items)
    THEN [o  |-> [o EXCEPT !.packetIndex_ = @ + 1],
          rc |-> o.markers_[o.currMarker_].items[o.packetIndex_ + 1],
          ub |-> FALSE]
  ELSE [o |-> [o EXCEPT !.packetIndex_ = @ + 1], rc |-> -1, ub |-> TRUE]

popNextPacketLength(o) ==
  IF o.currMarker_ # NoVec THEN popServe(popAdvance(o))
  ELSE [o |-> o, rc |-> 0, ub |-> FALSE]

(***************************************************************************)
(* SpecPl: PLT and PLM segments are read into one PacketLengthMarkers      *)
(* object; it is rewound and its lengths are popped.                       *)
(***************************************************************************)
MaxPlIndex == 2
MaxPlBytes == 2
MaxPlReads == 2
MaxPops == 3

\* bytes of a segment: a length byte, a continuation byte, Nplm counts
PlByteMenu == {0, 1, 2, 128, 129}
\* what a read past the end of a vector may return
GarbageLengths == {0, 9}

RECURSIVE ByteSeqs(_, _)
ByteSeqs(S, n) ==
  IF n = 0 THEN {<< >>}
  ELSE {Append(s, b) : s \in ByteSeqs(S, n - 1), b \in S}

\* the segments: Zplt or Zplm and the bytes that follow
PlSegments ==
  {<<z>> \o e : z \in 0..MaxPlIndex,
                e \in UNION {ByteSeqs(PlByteMenu, n) : n \in 0..MaxPlBytes}}

\* the last byte the PLT reader consumes has its continuation bit set
PltEndsInContinuation(data) == Len(data) >= 2 /\ data[Len(data)] >= 128

\* the last byte of some Nplm chunk the PLM reader consumes has it set
RECURSIVE PlmEndsInContinuation(_, _, _)
PlmEndsInContinuation(data, pos, header_size) ==
  /\ header_size > 0
  /\ header_size >= 1 + data[pos]
  /\ \/ data[pos] >= 1 /\ data[pos + data[pos]] >= 128
     \/ PlmEndsInContinuation(data, pos + 1 + data[pos], header_size - (1 + data[pos]))

\* unbroken: every marker read so far signalled the number of markers already
\* stored, modulo 256; failed: some read so far returned false
NoPlCall ==
  [op |-> "none", ok |-> TRUE, ub |-> FALSE, cut |-> FALSE, rc |-> 0,
   rewound |-> FALSE, popped |-> << >>, reads |-> 0, arg |-> 0,
   unbroken |-> TRUE, failed |-> FALSE]

\* what a call of a reader leaves in plOut
PlReadOut(op, data, r, cut) ==
  [NoPlCall EXCEPT
     !.op = op, !.ok = r.ok, !.ub = r.ub, !.cut = cut, !.arg = data[1],
     !.reads = IF plOut.reads < MaxPlReads THEN plOut.reads + 1 ELSE plOut.reads,
     !.unbroken = plOut.unbroken
                    /\ data[1] = Cardinality(DOMAIN pl.markers_) % 256,
     !.failed = plOut.failed \/ ~r.ok]

InitPl ==
  /\ InitVars /\ state = {"MH"} /\ pc = "handlers" /\ m_curr_marker = 0
  /\ pl = NewPacketLengthMarkers
  /\ plOut = NoPlCall
  /\ tlm = NoObject /\ tlmOut = NoObject
  /\ sched = NoObject /\ worker = NoObject /\ block = NoObject
  /\ NoWork

PlIdle == UNCHANGED <<hvars, pvars, tlm, tlmOut, sched, worker, block, wvars>>

\* read_plt hands a PLT segment to readPLT
PlReadPLT(data) ==
  /\ ~plOut.ub /\ plOut.reads < MaxPlReads
  /\ \E r \in {readPLT(pl, data)} :
       /\ pl' = r.o
       /\ plOut' = PlReadOut("readPLT", data, r, PltEndsInContinuation(data))
  /\ PlIdle

\* read_plm hands a PLM segment to readPLM
PlReadPLM(data) ==
  /\ ~plOut.ub /\ plOut.reads < MaxPlReads
  /\ \E r \in {readPLM(pl, data)} :
       /\ pl' = r.o
       /\ plOut' = PlReadOut("readPLM", data, r,
                              PlmEndsInContinuation(data, 2, Len(data) - 1))
  /\ PlIdle

PlRewind ==
  /\ ~plOut.ub
  /\ pl' = PL_rewind(pl)
  /\ plOut' = [NoPlCall EXCEPT !.op = "rewind", !.rewound = TRUE,
                               !.reads = plOut.reads,
                               !.unbroken = plOut.unbroken,
                               !.failed = plOut.failed]
  /\ PlIdle

\* popNextPacketLength, called after rewind; a read past the end of a vector
\* returns anything
PlPop ==
  /\ ~plOut.ub /\ plOut.rewound /\ Len(plOut.popped) < MaxPops
  /\ \E r \in {popNextPacketLength(pl)} :
       \E rc \in IF r.ub THEN GarbageLengths ELSE {r.rc} :
         /\ pl' = r.o
         /\ plOut' = [NoPlCall EXCEPT
              !.op = "pop", !.ub = r.ub, !.rc = rc,
              !.rewound = plOut.rewound, !.popped = Append(plOut.popped, rc),
              !.reads = plOut.reads, !.unbroken = plOut.unbroken,
              !.failed = plOut.failed]
  /\ PlIdle

NextPl ==
  \/ \E data \in PlSegments : PlReadPLT(data)
  \/ \E data \in PlSegments : PlReadPLM(data)
  \/ PlRewind
  \/ PlPop

SpecPl == InitPl /\ [][NextPl]_vars

(***************************************************************************)
(* SpecPlSeq: a long run of PLT markers without packet lengths, each       *)
(* signalling the next index of the sequence, index 0 or index 1.          *)
(***************************************************************************)
MaxSeqMarkers == 258

SeqIndexMenu == {Cardinality(DOMAIN pl.markers_) % 256, 0, 1}

SeqReadPLT(Zplt) ==
  /\ ~plOut.ub /\ Cardinality(DOMAIN pl.markers_) <= MaxSeqMarkers
  /\ \E r \in {readPLT(pl, <<Zplt>>)} :
       /\ pl' = r.o
       /\ plOut' = PlReadOut("readPLT", <<Zplt>>, r, FALSE)
  /\ PlIdle

NextPlSeq == \E Zplt \in SeqIndexMenu : SeqReadPLT(Zplt)

SpecPlSeq == InitPl /\ [][NextPlSeq]_vars

(***************************************************************************)
(* Claims about the packet length index.                                   *)
(***************************************************************************)
\* every stored packet length, by marker index and then by insertion order
AllLengths(o) == FlatVecs(o.markers_, KeysInOrder(DOMAIN o.markers_), 1)

\* C15: after any successful readPLT/readPLM calls and rewind(), the calls of
\* popNextPacketLength() return every stored length exactly once, by
\* increasing marker index and insertion order, and then 0 for ever, whatever
\* the set of stored marker indices (not starting at 0, not contiguous).
C15_PopsEveryLengthInOrder ==
  (plOut.rewound /\ ~plOut.failed /\ ~plOut.ub) =>
     \A i \in 1..Len(plOut.popped) :
        plOut.popped[i] = IF i <= Len(AllLengths(pl)) THEN AllLengths(pl)[i] ELSE 0

\* C16: popNextPacketLength returns 0 only when the lengths are exhausted:
\* every packet length the readers store is at least 1.
C16_StoredLengthsPositive ==
  \A i \in 1..Len(AllLengths(pl)) : AllLengths(pl)[i] >= 1

\* C17: readPLT and readPLM return false whenever a segment (for PLM: an Nplm
\* chunk) ends in the middle of a length, that is when the last byte consumed
\* has its continuation bit set, whatever its low seven bits; no partly
\* decoded length is carried into the next marker.
C17_MidLengthEndRejected ==
  plOut.op \in {"readPLT", "readPLM"} =>
     /\ plOut.cut => ~plOut.ok
     /\ plOut.ok => pl.packet_len_ = 0

\* C18: as long as every PLT marker read so far signalled the number of
\* markers already stored, modulo 256, the k-th marker is stored under its own
\* index k, beyond the 256th too, and is not concatenated with an earlier
\* one; once more than 256 markers are stored, a marker whose index breaks the
\* sequence makes readPLT fail.
C18_SequentialExtension ==
  [][ (plOut'.op = "readPLT" /\ plOut.unbroken) =>
        IF plOut'.arg = Cardinality(DOMAIN pl.markers_) % 256
          THEN /\ plOut'.ok
               /\ pl'.markerIndex_ = Cardinality(DOMAIN pl.markers_)
               /\ pl'.markerIndex_ \notin DOMAIN pl.markers_
               /\ DOMAIN pl'.markers_ = DOMAIN pl.markers_ \cup {pl'.markerIndex_}
               /\ \A k \in DOMAIN pl.markers_ : pl'.markers_[k] = pl.markers_[k]
          ELSE Cardinality(DOMAIN pl.markers_) > 256 =>
                 (~plOut'.ok /\ pl'.markers_ = pl.markers_) ]_vars

\* a marker that breaks the sequence after the 257th marker was stored under
\* index 256 has made readPLT fail
C18_Witness ==
  /\ plOut.op = "readPLT" /\ ~plOut.ok /\ ~plOut.unbroken
  /\ DOMAIN pl.markers_ = 0..256

(***************************************************************************)
(* T1DecompressScheduler::decompress: the code-blocks of a tile component  *)
(* are opened by one thread, or by the worker tasks of the task flow.      *)
(***************************************************************************)
MaxWorkers == 3
MaxResolutions == 2
MaxResBlocks == 2

\* DecompressBlocks: the number of blocks of each ResDecompressBlocks
BlocksMenu ==
  UNION {[1..n -> 1..MaxResBlocks] : n \in 0..MaxResolutions}

RECURSIVE SumSizes(_, _)
SumSizes(blocks, n) == IF n = 0 THEN 0 ELSE SumSizes(blocks, n - 1) + blocks[n]

\* what block->open(impl) does: it returns true or false, or it throws a
\* std::runtime_error
OpenOutcomes == {"true", "false", "throws"}

\* a DecompressBlockExec: the tasks that took it, what open did, the deletes
NewBlock == [claimed |-> {}, opened |-> "no", deleted |-> 0]

\* decompressBlock(impl, block): open, then delete block on both paths; the
\* result is false when open returned false or threw
decompressBlock(b, outcome) == [b EXCEPT !.opened = outcome, !.deleted = @ + 1]
decompressBlockResult(outcome) == outcome = "true"

\* delete block in the branch taken after a failure, without the delete
DeleteSkipped_Leak(b) == b
\* delete block in the branch taken after a failure
DeleteSkipped(b) == [b EXCEPT !.deleted = @ + 1]

\* if(!success) with the test switched off
SkipsDecode_Never(success) == FALSE
\* if(!success): the block is freed and not opened
SkipsDecode(success) == ~success

Workers == 1..sched.num_workers
BlockIds == 0..(sched.maxBlocks - 1)

\* success is what an earlier call left; the blocks are prepared
InitT1 ==
  /\ InitVars /\ state = {"MH"} /\ pc = "handlers" /\ m_curr_marker = 0
  /\ tlm = NoObject /\ tlmOut = NoObject
  /\ pl = NoObject /\ plOut = NoObject
  /\ NoWork
  /\ \E nw \in 1..MaxWorkers, blocks \in BlocksMenu, s \in BOOLEAN :
       /\ sched = [pc |-> "call", success |-> s, blockCount |-> -1,
                   num_workers |-> nw, blocks |-> blocks,
                   maxBlocks |-> SumSizes(blocks, Len(blocks)),
                   seq |-> 0, ret |-> "none"]
       /\ worker = [w \in 1..nw |-> [pc |-> "idle", index |-> -1]]
       /\ block = [i \in 0..(SumSizes(blocks, Len(blocks)) - 1) |-> NewBlock]

T1Idle == UNCHANGED <<hvars, pvars, tlm, tlmOut, pl, plOut, wvars>>

\* the entry of decompress: no blocks, one thread, or the task flow
T1Enter ==
  /\ sched.pc = "call"
  /\ IF Len(sched.blocks) = 0
       THEN /\ sched' = [sched EXCEPT !.pc = "done", !.ret = "true"]
            /\ UNCHANGED worker
       ELSE IF sched.num_workers = 1
         THEN /\ sched' = [sched EXCEPT !.pc = "seq", !.success = TRUE]
              /\ UNCHANGED worker
         ELSE /\ sched' = [sched EXCEPT !.pc = "par", !.success = TRUE]
              /\ worker' = [w \in Workers |-> [pc |-> "claim", index |-> -1]]
  /\ UNCHANGED block
  /\ T1Idle

\* one round of the loops of the single thread
T1SeqBlock(outcome) ==
  /\ sched.pc = "seq" /\ sched.seq < sched.maxBlocks
  /\ IF SkipsDecode(sched.success)
       THEN /\ block' = [block EXCEPT ![sched.seq] =
                           DeleteSkipped([@ EXCEPT !.claimed = @ \cup {1}])]
            /\ sched' = [sched EXCEPT !.seq = @ + 1]
       ELSE /\ block' = [block EXCEPT ![sched.seq] =
                           decompressBlock([@ EXCEPT !.claimed = @ \cup {1}], outcome)]
            /\ sched' = [sched EXCEPT
                 !.seq = @ + 1,
                 !.success = IF decompressBlockResult(outcome) THEN @ ELSE FALSE]
  /\ UNCHANGED worker
  /\ T1Idle

T1SeqReturn ==
  /\ sched.pc = "seq" /\ sched.seq = sched.maxBlocks
  /\ sched' = [sched EXCEPT !.pc = "done",
                            !.ret = IF sched.success THEN "true" ELSE "false"]
  /\ UNCHANGED <<worker, block>>
  /\ T1Idle

\* index = ++blockCount on the atomic counter; the task ends when the index
\* is out of bounds, else it takes decodeBlocks[index]
T1Claim(w) ==
  /\ worker[w].pc = "claim"
  /\ sched' = [sched EXCEPT !.blockCount = @ + 1]
  /\ IF sched.blockCount + 1 >= sched.maxBlocks
       THEN /\ worker' = [worker EXCEPT ![w] = [pc |-> "done", index |-> -1]]
            /\ UNCHANGED block
       ELSE /\ worker' = [worker EXCEPT
                 ![w] = [pc |-> "check", index |-> sched.blockCount + 1]]
            /\ block' = [block EXCEPT
                 ![sched.blockCount + 1].claimed = @ \cup {w}]
  /\ T1Idle

\* the task reads success: after a failure it deletes the block and goes on
T1Check(w) ==
  /\ worker[w].pc = "check"
  /\ IF SkipsDecode(sched.success)
       THEN /\ block' = [block EXCEPT ![worker[w].index] = DeleteSkipped(@)]
            /\ worker' = [worker EXCEPT ![w].pc = "claim"]
       ELSE /\ worker' = [worker EXCEPT ![w].pc = "open"]
            /\ UNCHANGED block
  /\ UNCHANGED sched
  /\ T1Idle

\* decompressBlock(impl, block)
T1Open(w, outcome) ==
  /\ worker[w].pc = "open"
  /\ block' = [block EXCEPT ![worker[w].index] = decompressBlock(@, outcome)]
  /\ worker' = [worker EXCEPT
       ![w].pc = IF decompressBlockResult(outcome) THEN "claim" ELSE "store"]
  /\ UNCHANGED sched
  /\ T1Idle

\* success = false
T1Store(w) ==
  /\ worker[w].pc = "store"
  /\ sched' = [sched EXCEPT !.success = FALSE]
  /\ worker' = [worker EXCEPT ![w].pc = "claim"]
  /\ UNCHANGED block
  /\ T1Idle

\* wait() that returns at once, whatever the tasks are doing
AllTasksReturned_NoWait == TRUE
\* wait() on the future of the task flow: every task has returned
AllTasksReturned == \A w \in Workers : worker[w].pc = "done"

\* run(taskflow).wait() has returned: every task has ended
T1Join ==
  /\ sched.pc = "par" /\ AllTasksReturned
  /\ sched' = [sched EXCEPT !.pc = "done",
                            !.ret = IF sched.success THEN "true" ELSE "false"]
  /\ UNCHANGED <<worker, block>>
  /\ T1Idle

NextT1 ==
  \/ T1Enter
  \/ \E outcome \in OpenOutcomes : T1SeqBlock(outcome)
  \/ T1SeqReturn
  \/ \E w \in Workers : T1Claim(w)
  \/ \E w \in Workers : T1Check(w)
  \/ \E w \in Workers, outcome \in OpenOutcomes : T1Open(w, outcome)
  \/ \E w \in Workers : T1Store(w)
  \/ T1Join

SpecT1 == InitT1 /\ [][NextT1]_vars

TestsSuccess(i) ==
  \/ /\ sched.pc = "seq" /\ sched'.seq = sched.seq + 1 /\ i = sched.seq
  \/ /\ sched.pc = "par"
     /\ \E w \in Workers : /\ worker[w].pc = "check" /\ worker'[w].pc # "check"
                           /\ worker[w].index = i

\* C20: a worker that finds the failure flag set when it tests it frees its
\* block without decoding it; the flag, once set, is not cleared during the
\* call; decompress returns true exactly if every block was decoded and every
\* decode succeeded without throwing.
C20_FailureSkipsDecodeAndDecidesResult ==
  [][ /\ \A i \in BlockIds :
            (TestsSuccess(i) /\ ~sched.success) =>
               /\ block'[i].opened = "no"
               /\ block'[i].deleted = block[i].deleted + 1
               /\ ~sched'.success
      /\ (sched.pc \in {"seq", "par"} /\ ~sched.success) => ~sched'.success
      /\ sched'.pc = "done" =>
            (sched'.ret = "true" <=> \A i \in BlockIds : block'[i].opened = "true")
    ]_vars

\* with several workers a block was freed undecoded after a failure, and the
\* call has returned false
C20_Witness ==
  /\ sched.pc = "done" /\ sched.ret = "false" /\ sched.num_workers > 1
  /\ \E i \in BlockIds : block[i].opened = "false"
  /\ \E i \in BlockIds : block[i].opened = "no" /\ block[i].deleted = 1
  /\ \E i \in BlockIds : block[i].opened = "true"

(***************************************************************************)
(* The scheduler under fair scheduling: the calling thread goes on while   *)
(* it can, and the executor runs every task it was given.                  *)
(***************************************************************************)
\* the steps of the thread that called decompress
T1Caller ==
  \/ T1Enter
  \/ \E outcome \in OpenOutcomes : T1SeqBlock(outcome)
  \/ T1SeqReturn
  \/ T1Join

\* the steps of the task of worker w
T1Task(w) ==
  /\ w \in Workers
  /\ \/ T1Claim(w)
     \/ T1Check(w)
     \/ \E outcome \in OpenOutcomes : T1Open(w, outcome)
     \/ T1Store(w)

SpecT1Live ==
  /\ InitT1 /\ [][NextT1]_vars
  /\ WF_vars(T1Caller)
  /\ \A w \in 1..MaxWorkers : WF_vars(T1Task(w))

\* C21: decompress returns for every block list and every number of workers;
\* each task returns once the counter has passed the number of blocks, the
\* call returns only when every task has returned, and no block is opened or
\* deleted after the call has returned.
C21_ReturnsAfterAllTasks ==
  /\ <>(sched.pc = "done")
  /\ [](\A w \in Workers :
           worker[w].pc = "done" => sched.blockCount >= sched.maxBlocks)
  /\ []((sched.pc = "done" /\ sched.num_workers > 1 /\ Len(sched.blocks) > 0)
           => \A w \in Workers : worker[w].pc = "done")
  /\ [][sched.pc = "done" => block' = block]_vars

\* the call has returned with the most workers: every task ran past the end
\* of the block list, and every block was deleted
C21_Witness ==
  /\ sched.pc = "done" /\ sched.num_workers = MaxWorkers
  /\ sched.maxBlocks >= 3
  /\ sched.blockCount = sched.maxBlocks + sched.num_workers - 1
  /\ \A w \in Workers : worker[w].pc = "done"
  /\ \A i \in BlockIds : block[i].deleted = 1

(***************************************************************************)
(* WaveletInverse::run: the inverse transform of a tile component, level   *)
(* by level, each pass a task set split over the task threads.             *)
(***************************************************************************)
MaxThreads == 3
MaxNumRes == 2
MaxCalls == 2

\* (float)n: the nearest value with a 24-bit significand, ties to even
RECURSIVE FloatUlp(_, _)
FloatUlp(n, u) == IF n \div u < 2^24 THEN u ELSE FloatUlp(n, 2 * u)
RoundEven(x, d) ==
  IF 2 * (x % d) > d \/ (2 * (x % d) = d /\ (x \div d) % 2 = 1)
    THEN (x \div d) + 1 ELSE x \div d
FloatOf(n) == RoundEven(n, FloatUlp(n, 1)) * FloatUlp(n, 1)

\* a / b in float arithmetic, as the fraction num / den, den a power of two
RECURSIVE DivScale(_, _, _)
DivScale(a, b, d) ==
  IF (a * 2 * d) \div b < 2^24 THEN DivScale(a, b, 2 * d) ELSE d
FloatDiv(a, b) ==
  IF a \div b >= 2^24
    THEN [num |-> RoundEven(a, b * FloatUlp(a \div b, 1)) * FloatUlp(a \div b, 1),
          den |-> 1]
    ELSE [num |-> RoundEven(a * DivScale(a, b, 1), b), den |-> DivScale(a, b, 1)]
\* (uint32_t)std::ceil(f)
Ceil(f) == (f.num + f.den - 1) \div f.den

\* linesPerThreadH, linesPerThreadV
linesPerThread(total, numThreads) ==
  Ceil(FloatDiv(FloatOf(total), FloatOf(numThreads)))

\* dwt_utils::max_resolution(r, i): the largest side of resolutions 1..i-1
RECURSIVE max_resolution(_, _)
max_resolution(r, i) ==
  IF i <= 1 THEN 0
  ELSE Max(max_resolution(r, i - 1), Max(r[i].w, r[i].h))

\* the sides of the tile component's highest resolution
TopDims == {[w |-> 0, h |-> 2], [w |-> 3, h |-> 2], [w |-> 2, h |-> 5],
            [w |-> 1, h |-> 2^25 + 1]}

CeilDiv(a, b) == (a + b - 1) \div b
\* tilec->resolutions: each resolution halves the next one
Resolutions(top, n) ==
  [k \in 1..n |-> [w |-> CeilDiv(top.w, 2^(n - k)), h |-> CeilDiv(top.h, 2^(n - k))]]

\* the test that returns at once when there is no decomposition level, switched off
IsSpatial_Never(numresolutions) == FALSE
\* tilec->numresolutions == 1U
IsSpatial(numresolutions) == numresolutions = 1

Threads == 0..(dwt.numThreads - 1)

InitDwt ==
  /\ InitVars /\ state = {"MH"} /\ pc = "handlers" /\ m_curr_marker = 0
  /\ tlm = NoObject /\ tlmOut = NoObject
  /\ pl = NoObject /\ plOut = NoObject
  /\ sched = NoObject /\ worker = NoObject /\ block = NoObject
  /\ win = NoObject /\ mcc = NoObject /\ hdr = NoObject /\ NoTools
  /\ \E nt \in 1..MaxThreads, n \in 1..MaxNumRes, top \in TopDims :
       \E numres \in 1..n :
         dwt = [pc |-> "call", numThreads |-> nt, numresolutions |-> n,
                numres |-> numres, resolutions |-> Resolutions(top, n),
                i |-> 0, rw |-> 0, rh |-> 0, rc |-> "none",
                bj_array |-> 0, oob |-> FALSE, calls |-> 1, a |-> 0]
  /\ tasks = {}

DwtIdle ==
  UNCHANGED <<hvars, pvars, tlm, tlmOut, pl, plOut, sched, worker, block, win, mcc, hdr,
              tvars>>

\* the entry of run: nothing to do, or no scratch size, or go on
DwtEnter ==
  /\ dwt.pc = "call"
  /\ IF IsSpatial(dwt.numresolutions)
       THEN dwt' = [dwt EXCEPT !.pc = "done", !.rc = "true"]
       ELSE IF max_resolution(dwt.resolutions, dwt.numres) = 0
         THEN dwt' = [dwt EXCEPT !.pc = "done", !.rc = "false"]
         ELSE dwt' = [dwt EXCEPT !.pc = "alloc"]
  /\ UNCHANGED tasks
  /\ DwtIdle

\* run is called again on the same tile component
DwtAgain ==
  /\ dwt.pc = "done" /\ dwt.calls < MaxCalls
  /\ dwt' = [dwt EXCEPT !.pc = "call", !.rc = "none", !.i = 0,
                        !.calls = @ + 1, !.bj_array = 0]
  /\ tasks' = {}
  /\ DwtIdle

\* one scratch buffer per task thread; a failed allocation ends the call
DwtAlloc(ok) ==
  /\ dwt.pc = "alloc"
  /\ IF ok
       THEN dwt' = [dwt EXCEPT !.pc = "level", !.bj_array = dwt.numThreads, !.i = 0]
       ELSE dwt' = [dwt EXCEPT !.pc = "cleanup", !.rc = "false"]
  /\ UNCHANGED tasks
  /\ DwtIdle

\* the head of the loop over the levels: the sides of cur_res; next_res may
\* lie past the end of the array
DwtLevel ==
  /\ dwt.pc = "level"
  /\ IF dwt.i < dwt.numres
       THEN dwt' = [dwt EXCEPT
              !.pc = "h",
              !.rw = dwt.resolutions[dwt.i + 1].w,
              !.rh = dwt.resolutions[dwt.i + 1].h,
              !.oob = @ \/ dwt.i + 2 > dwt.numresolutions]
       ELSE dwt' = [dwt EXCEPT !.pc = "cleanup",
                               !.rc = IF @ = "none" THEN "true" ELSE @]
  /\ UNCHANGED tasks
  /\ DwtIdle

\* the scheduler's split of the set 0..numThreads-1 into ranges
Cuts == SUBSET (1..(dwt.numThreads - 1))
RangesOf(cuts) ==
  {[start |-> s, end |-> e] :
     <<s, e>> \in {p \in (({0} \cup cuts) \X (cuts \cup {dwt.numThreads})) :
                     /\ p[1] < p[2]
                     /\ \A c \in cuts : ~(p[1] < c /\ c < p[2])}}

\* the lines  range.start * linesPerThread .. min(range.end * linesPerThread,
\* total) - 1  that the task of a range transforms
Partition(range, pass, total, lines) ==
  [i |-> dwt.i, pass |-> pass, start |-> range.start, end |-> range.end,
   lo |-> range.start * lines, hi |-> Min(range.end * lines, total),
   total |-> total, st |-> "pending", threadnum |-> -1, bj |-> -1]

PassTotal(pass) == IF pass = "h" THEN dwt.rh ELSE dwt.rw
AfterPass(pass) == IF pass = "h" THEN "v" ELSE "next"

\* if (rh) / if (rw): the task set of the pass is given to the scheduler
DwtAddTaskSet(pass, cuts) ==
  /\ dwt.pc = pass
  /\ IF PassTotal(pass) = 0
       THEN /\ dwt' = [dwt EXCEPT !.pc = AfterPass(pass)]
            /\ UNCHANGED tasks
       ELSE /\ dwt' = [dwt EXCEPT !.pc = pass \o "wait"]
            /\ tasks' = tasks \cup
                 {Partition(r, pass, PassTotal(pass),
                            linesPerThread(PassTotal(pass), dwt.numThreads)) :
                    r \in RangesOf(cuts)}
  /\ DwtIdle

\* every scratch buffer is the first one
ScratchOf_Shared(threadnum) == 0
\* bj_array[threadnum]
ScratchOf(threadnum) == threadnum

\* a task thread takes a range and enters the lambda with its thread number
TaskStart(t, p) ==
  /\ p \in tasks /\ p.st = "pending"
  /\ \A q \in tasks : q.st = "running" => q.threadnum # t
  /\ tasks' = (tasks \ {p}) \cup
                {[p EXCEPT !.st = "running", !.threadnum = t, !.bj = ScratchOf(t)]}
  /\ UNCHANGED dwt
  /\ DwtIdle

\* the lambda's loop has transformed each of its lines in place; a counts
\* the line transforms applied to the buffer
TaskFinish(t) ==
  /\ \E p \in tasks :
       /\ p.st = "running" /\ p.threadnum = t
       /\ tasks' = (tasks \ {p}) \cup {[p EXCEPT !.st = "done"]}
       /\ dwt' = [dwt EXCEPT !.a = IF p.lo < p.hi THEN @ + (p.hi - p.lo) ELSE @]
  /\ DwtIdle

\* WaitforTask that returns at once
TaskSetComplete_NoWait(pass) == TRUE
\* WaitforTask(&task): every range of the task set has been run; the task
\* set is destroyed at the end of its block
TaskSetComplete(pass) ==
  \A p \in tasks : (p.i = dwt.i /\ p.pass = pass) => p.st = "done"

DwtWait(pass) ==
  /\ dwt.pc = pass \o "wait"
  /\ TaskSetComplete(pass)
  /\ dwt' = [dwt EXCEPT !.pc = AfterPass(pass)]
  /\ tasks' = {p \in tasks : ~(p.i = dwt.i /\ p.pass = pass /\ p.st = "done")}
  /\ DwtIdle

\* cur_res = next_res; next_res++
DwtNextLevel ==
  /\ dwt.pc = "next"
  /\ dwt' = [dwt EXCEPT !.pc = "level", !.i = @ + 1]
  /\ UNCHANGED tasks
  /\ DwtIdle

\* cleanup: the scratch buffers are freed and rc is returned
DwtCleanup ==
  /\ dwt.pc = "cleanup"
  /\ dwt' = [dwt EXCEPT !.pc = "done", !.bj_array = 0]
  /\ UNCHANGED tasks
  /\ DwtIdle

NextDwt ==
  \/ DwtEnter
  \/ DwtAgain
  \/ \E ok \in BOOLEAN : DwtAlloc(ok)
  \/ DwtLevel
  \/ \E pass \in {"h", "v"}, cuts \in Cuts : DwtAddTaskSet(pass, cuts)
  \/ \E t \in Threads, p \in tasks : TaskStart(t, p)
  \/ \E t \in Threads : TaskFinish(t)
  \/ \E pass \in {"h", "v"} : DwtWait(pass)
  \/ DwtNextLevel
  \/ DwtCleanup

SpecDwt == InitDwt /\ [][NextDwt]_vars

(***************************************************************************)
(* Claims about the inverse transform.                                     *)
(***************************************************************************)
\* the ranges that this step hands to a task thread
StartedNow == {q \in tasks' : q.st = "running" /\ q \notin tasks}
\* r belongs to a pass that comes before the pass of q
PassBefore(r, q) == r.i < q.i \/ (r.i = q.i /\ r.pass = "h" /\ q.pass = "v")

\* C22: at every level no task of the vertical pass starts before every task
\* of the horizontal pass of that level has completed, and no task of the next
\* level starts before every task of the vertical pass has completed.
C22_PassesSeparatedByBarrier ==
  [][\A q \in StartedNow :
        \A r \in tasks : (r # q /\ (PassBefore(r, q) \/ PassBefore(q, r))) =>
                            r.st = "done"]_vars

\* two tasks of the vertical pass of the second level run at the same time
C22_Witness ==
  /\ dwt.pc = "vwait" /\ dwt.i = 1 /\ dwt.a > 0
  /\ \E p, q \in tasks : /\ p # q /\ p.st = "running" /\ q.st = "running"
                         /\ p.pass = "v" /\ q.pass = "v" /\ p.i = 1 /\ q.i = 1

\* the ranges of the task set being waited for that hold at least one line
LinesOf(pass) == {p \in tasks : p.i = dwt.i /\ p.pass = pass /\ p.lo < p.hi}

\* C23: for every level and number of threads the ranges of lines given to
\* the tasks of a pass are contiguous, pairwise disjoint and cover each line
\* 0..total-1 once, and tasks that run at the same time use distinct scratch
\* buffers.
C23_RangesCoverEachLineOnce ==
  /\ \A pass \in {"h", "v"} :
       dwt.pc = pass \o "wait" =>
         /\ \E p \in LinesOf(pass) : p.lo = 0
         /\ \A p \in LinesOf(pass) :
               p.hi = PassTotal(pass) \/ \E q \in LinesOf(pass) : q.lo = p.hi
         /\ \A p, q \in LinesOf(pass) : p # q => (p.hi <= q.lo \/ q.hi <= p.lo)
  /\ \A p, q \in tasks :
       (p # q /\ p.st = "running" /\ q.st = "running") => p.bj # q.bj

\* C24: with one resolution (no decomposition level) run returns true and the
\* buffer is as it was, however often it is called.
C24_NoLevelsIsIdentity ==
  dwt.numresolutions = 1 =>
     /\ dwt.a = 0 /\ tasks = {}
     /\ dwt.pc = "done" => dwt.rc = "true"

\* the second call on a component with one resolution has returned
C24_Witness ==
  dwt.numresolutions = 1 /\ dwt.pc = "done" /\ dwt.calls = MaxCalls /\ dwt.rc = "true"

(***************************************************************************)
(* ResWindow::getBandWindow and getPaddedBandWindow: the window of a       *)
(* sub-band, from a window in unreduced tile component coordinates.        *)
(***************************************************************************)
MaxCoord == 9
MaxNumDecomps == 3
MaxPadding == 2
BAND_NUM_ORIENTATIONS == 4

\* grk_rect32
Rect(x0, y0, x1, y1) == [x0 |-> x0, y0 |-> y0, x1 |-> x1, y1 |-> y1]

\* ceildivpow2<uint32_t>(a, b): (a + 2^b - 1) >> b, the sum taken in 64 bits
ceildivpow2(a, b) == (a + 2^b - 1) \div 2^b

\* satSub and satAdd of growIPL; the coordinates here stay far below 2^32 - 1
satSub(a, b) == IF a < b THEN 0 ELSE a - b
satAdd(a, b) == a + b
growIPL(r, boundary) ==
  Rect(satSub(r.x0, boundary), satSub(r.y0, boundary),
       satAdd(r.x1, boundary), satAdd(r.y1, boundary))
intersection(r, rhs) ==
  Rect(Max(r.x0, rhs.x0), Max(r.y0, rhs.y0), Min(r.x1, rhs.x1), Min(r.y1, rhs.y1))

\* (1U << (numDecomps - 1)) * bx0
bandShift(numDecomps, b) == 2^(numDecomps - 1) * b
\* one coordinate of the band window
bandCoord(tc, shift, numDecomps) ==
  IF tc <= shift THEN 0 ELSE ceildivpow2(tc - shift, numDecomps)

\* getBandWindow that takes every band for the low-pass band
getBandWindow_NoShift(numDecomps, orientation, w) ==
  IF numDecomps = 0 THEN w
  ELSE Rect(bandCoord(w.x0, 0, numDecomps), bandCoord(w.y0, 0, numDecomps),
            bandCoord(w.x1, 0, numDecomps), bandCoord(w.y1, 0, numDecomps))

getBandWindow(numDecomps, orientation, tileCompWindowUnreduced) ==
  IF numDecomps = 0 THEN tileCompWindowUnreduced
  ELSE Rect(bandCoord(tileCompWindowUnreduced.x0,
                      bandShift(numDecomps, orientation % 2), numDecomps),
            bandCoord(tileCompWindowUnreduced.y0,
                      bandShift(numDecomps, orientation \div 2), numDecomps),
            bandCoord(tileCompWindowUnreduced.x1,
                      bandShift(numDecomps, orientation % 2), numDecomps),
            bandCoord(tileCompWindowUnreduced.y1,
                      bandShift(numDecomps, orientation \div 2), numDecomps))

\* oneLessDecompWindow, oneLessDecompTile
oneLessDecomp(numDecomps, r) ==
  IF numDecomps > 1 THEN getBandWindow(numDecomps - 1, 0, r) ELSE r

\* getPaddedBandWindow that does not clip the grown window
getPaddedBandWindow_NoClip(numDecomps, orientation, unreducedTileCompWindow, unreducedTileComp, padding) ==
  IF numDecomps = 0
    THEN growIPL(unreducedTileCompWindow, padding)
    ELSE getBandWindow(1, orientation,
           growIPL(oneLessDecomp(numDecomps, unreducedTileCompWindow), 2 * padding))

getPaddedBandWindow(numDecomps, orientation, unreducedTileCompWindow, unreducedTileComp, padding) ==
  IF numDecomps = 0
    THEN intersection(growIPL(unreducedTileCompWindow, padding), unreducedTileComp)
    ELSE getBandWindow(1, orientation,
           intersection(growIPL(oneLessDecomp(numDecomps, unreducedTileCompWindow),
                                2 * padding),
                        oneLessDecomp(numDecomps, unreducedTileComp)))

CoordMenu == {0, 1, 3, 4, 6, MaxCoord}
\* the unreduced tile components
TileCompMenu == {Rect(1, 0, MaxCoord, 6), Rect(0, 3, 4, MaxCoord)}
\* the windows inside a tile component
WindowsIn(t) ==
  {Rect(c[1], c[2], c[3], c[4]) :
     c \in {d \in CoordMenu \X CoordMenu \X CoordMenu \X CoordMenu :
              /\ t.x0 <= d[1] /\ d[1] <= d[3] /\ d[3] <= t.x1
              /\ t.y0 <= d[2] /\ d[2] <= d[4] /\ d[4] <= t.y1}}
\* getPaddedBandWindow takes orientation 0 only when there is no decomposition
OrientationsOf(numDecomps) ==
  IF numDecomps = 0 THEN {0} ELSE 0..(BAND_NUM_ORIENTATIONS - 1)

InitWin ==
  /\ InitVars /\ state = {"MH"} /\ pc = "handlers" /\ m_curr_marker = 0
  /\ NoCaches_Markers
  /\ dwt = NoObject /\ tasks = NoObject /\ mcc = NoObject /\ hdr = NoObject
  /\ NoTools
  /\ \E n \in 0..MaxNumDecomps, t \in TileCompMenu, p \in 0..MaxPadding :
       \E o \in OrientationsOf(n), w \in WindowsIn(t) :
         win = [op |-> "none", numDecomps |-> n, orientation |-> o,
                window |-> w, tileComp |-> t, padding |-> p,
                out |-> Rect(0, 0, 0, 0)]

WinIdle ==
  UNCHANGED <<hvars, pvars, tlm, tlmOut, pl, plOut, sched, worker, block,
              dwt, tasks, mcc, hdr, tvars>>

WinGetBandWindow ==
  /\ win.op = "none"
  /\ win' = [win EXCEPT !.op = "getBandWindow",
               !.out = getBandWindow(win.numDecomps, win.orientation, win.window)]
  /\ WinIdle

WinGetPaddedBandWindow ==
  /\ win.op = "none"
  /\ win' = [win EXCEPT !.op = "getPaddedBandWindow",
               !.out = getPaddedBandWindow(win.numDecomps, win.orientation,
                                           win.window, win.tileComp, win.padding)]
  /\ WinIdle

NextWin == WinGetBandWindow \/ WinGetPaddedBandWindow

SpecWin == InitWin /\ [][NextWin]_vars

(***************************************************************************)
(* Claims about the band windows.                                          *)
(***************************************************************************)
\* ceil(x / d) for any integer x
CeilOf(x, d) == -((-x) \div d)
\* equation B-15: the coordinate c in the band with offset bit b after n levels
B15(c, b, n) == Max(0, CeilOf(c - b * 2^(n - 1), 2^n))

\* C25: getBandWindow returns the window itself for no decomposition, and
\* else the window whose coordinates are those of equation B-15, with the
\* offset bit orientation & 1 for x and orientation >> 1 for y; the result of
\* a window with x0 <= x1 and y0 <= y1 has x0 <= x1 and y0 <= y1.
C25_BandWindowIsB15 ==
  win.op = "getBandWindow" =>
    /\ win.numDecomps = 0 => win.out = win.window
    /\ win.numDecomps > 0 =>
         win.out = Rect(B15(win.window.x0, win.orientation % 2, win.numDecomps),
                        B15(win.window.y0, win.orientation \div 2, win.numDecomps),
                        B15(win.window.x1, win.orientation % 2, win.numDecomps),
                        B15(win.window.y1, win.orientation \div 2, win.numDecomps))
    /\ win.out.x0 <= win.out.x1 /\ win.out.y0 <= win.out.y1

\* the HH band of a window two levels down, where the offsets matter
C25_Witness ==
  /\ win.op = "getBandWindow" /\ win.numDecomps = 2 /\ win.orientation = 3
  /\ win.window = Rect(3, 1, 6, 6)
  /\ win.out = Rect(1, 0, 1, 1)

Contains(outer, inner) ==
  /\ outer.x0 <= inner.x0 /\ inner.x1 <= outer.x1
  /\ outer.y0 <= inner.y0 /\ inner.y1 <= outer.y1

\* C26: for a window inside the unreduced tile component, the padded band
\* window contains the band window of the window and lies inside the band
\* window of the whole tile component.
C26_PaddedWindowBetweenWindowAndTile ==
  win.op = "getPaddedBandWindow" =>
    /\ Contains(win.out,
                getBandWindow(win.numDecomps, win.orientation, win.window))
    /\ Contains(getBandWindow(win.numDecomps, win.orientation, win.tileComp),
                win.out)

\* the padding has grown the band window, and the tile component has clipped it
C26_Witness ==
  /\ win.op = "getPaddedBandWindow" /\ win.numDecomps = 1 /\ win.padding = 2
  /\ win.out # getBandWindow(win.numDecomps, win.orientation, win.window)
  /\ win.out = getBandWindow(win.numDecomps, win.orientation, win.tileComp)
  /\ win.window # win.tileComp

(***************************************************************************)
(* CodeStreamDecompress::read_mcc: the MCC marker adds or rewrites one of  *)
(* the current TCP's multiple component collection records.                *)
(***************************************************************************)
MaxMccReads == 2
MaxMccComps == 2
default_number_mcc_records == 10

\* a grk_simple_mcc_decorrelation_data after memset; the two array pointers
\* hold the address of an MCT record, 0 for nullptr
ZeroMcc ==
  [m_index |-> 0, m_nb_comps |-> 0, m_is_irreversible |-> FALSE,
   m_decorrelation_array |-> 0, m_offset_array |-> 0]

default_number_mct_records == 10

\* a grk_mct_data after memset; m_data_size is the length of m_data
ZeroMct == [m_index |-> 0, m_array_type |-> 0, m_element_type |-> 0, m_data |-> << >>]

\* addresses at which grkRealloc places the MCT record array; record i of the
\* array at address a has the address a + i, and 0 is nullptr
MctBases == {1000, 2000}
OtherBase(a) == IF a = 1000 THEN 2000 ELSE 1000

\* an MCT record as read_mct stores it
MctRecord(index, array_type, element_type, data) ==
  [m_index |-> index, m_array_type |-> array_type, m_element_type |-> element_type,
   m_data |-> data]

\* the TCP before any MCC marker: no MCC record array; its MCT records 1 and 2
\* in an array of default_number_mct_records places (mct_array is the memory
\* m_mct_records points to)
NewMccTcp ==
  [m_mcc_records |-> << >>, m_nb_mcc_records |-> 0, m_nb_max_mcc_records |-> 0,
   m_mct_records |-> 1000,
   mct_array |-> [k \in 1..default_number_mct_records |->
                    IF k <= 2 THEN MctRecord(k, 0, 0, << >>) ELSE ZeroMct],
   m_nb_mct_records |-> 2, m_nb_max_mct_records |-> default_number_mct_records,
   m_mct_decoding_matrix |-> << >>,
   m_dc_level_shift |-> [c \in Comps |-> 0]]

\* the position of the MCT record with m_index = index, m_nb_mct_records if none
RECURSIVE mctFind(_, _, _)
mctFind(o, index, j) ==
  IF j = o.m_nb_mct_records \/ o.mct_array[j + 1].m_index = index
    THEN j ELSE mctFind(o, index, j + 1)

\* the result of a call: the TCP, the value returned, and whether GRK_WARN
\* reported an unsupported feature
mccReturn(o, rc, warn) == [o |-> o, rc |-> rc, warn |-> warn]

\* the position of the record with m_index = index, m_nb_mcc_records if none
RECURSIVE mccFind(_, _, _)
mccFind(o, index, i) ==
  IF i = o.m_nb_mcc_records \/ o.m_mcc_records[i + 1].m_index = index
    THEN i ELSE mccFind(o, index, i + 1)

\* grkRealloc and memset of the new part when the array is full
mccGrow(o) ==
  [o EXCEPT
     !.m_nb_max_mcc_records = @ + default_number_mcc_records,
     !.m_mcc_records =
        [k \in 1..(o.m_nb_max_mcc_records + default_number_mcc_records) |->
           IF k <= o.m_nb_mcc_records THEN o.m_mcc_records[k] ELSE ZeroMcc]]
\* the failed grkRealloc
mccWiped(o) ==
  [o EXCEPT !.m_mcc_records = << >>, !.m_nb_mcc_records = 0,
            !.m_nb_max_mcc_records = 0]

\* if(header_size != 0), and the count of a new record
mccEnd(o, header_size, newmcc) ==
  IF header_size # 0 THEN mccReturn(o, FALSE, FALSE)
  ELSE mccReturn([o EXCEPT !.m_nb_mcc_records = IF newmcc THEN @ + 1 ELSE @],
                 TRUE, FALSE)

\* the offset array of Tmcc
mccOffset(o, slot, header_size, newmcc, index) ==
  IF index = 0 THEN mccEnd(o, header_size, newmcc)
  ELSE IF mctFind(o, index, 0) < o.m_nb_mct_records
    THEN mccEnd([o EXCEPT !.m_mcc_records[slot + 1].m_offset_array =
                             o.m_mct_records + mctFind(o, index, 0)],
                header_size, newmcc)
    ELSE mccReturn(o, FALSE, FALSE)

\* the decorrelation array of Tmcc
mccDecorrelation(o, slot, header_size, newmcc, tmp) ==
  IF tmp % 256 = 0
    THEN mccOffset(o, slot, header_size, newmcc, (tmp \div 256) % 256)
  ELSE IF mctFind(o, tmp % 256, 0) < o.m_nb_mct_records
    THEN mccOffset([o EXCEPT !.m_mcc_records[slot + 1].m_decorrelation_array =
                                o.m_mct_records + mctFind(o, tmp % 256, 0)],
                   slot, header_size, newmcc, (tmp \div 256) % 256)
    ELSE mccReturn(o, FALSE, FALSE)

\* Tmcc: the reversibility bit, then both arrays start as nullptr
mccArrays(o, slot, header_size, newmcc, tmp) ==
  mccDecorrelation(
    [o EXCEPT !.m_mcc_records[slot + 1] =
       [@ EXCEPT !.m_is_irreversible = (tmp \div 65536) % 2 = 0,
                 !.m_decorrelation_array = 0, !.m_offset_array = 0]],
    slot, header_size, newmcc, tmp)

\* one of the indices Cmcc or Wmcc is not its own position
Shuffled(data, pos, nb_bytes_by_comp, n) ==
  \E j \in 0..(n - 1) :
     grk_read(data, pos + j * nb_bytes_by_comp, nb_bytes_by_comp) # j

\* Wmcc, after its count nb_comps at pos
mccOutputs(o, data, header_size, slot, newmcc, pos, nb_comps) ==
  IF nb_comps % 32768 # o.m_mcc_records[slot + 1].m_nb_comps
    THEN mccReturn(o, TRUE, TRUE)
  ELSE IF header_size < (1 + nb_comps \div 32768) * (nb_comps % 32768) + 3
    THEN mccReturn(o, FALSE, FALSE)
  ELSE IF Shuffled(data, pos + 2, 1 + nb_comps \div 32768, nb_comps % 32768)
    THEN mccReturn(o, TRUE, TRUE)
  ELSE mccArrays(o, slot,
         header_size - ((1 + nb_comps \div 32768) * (nb_comps % 32768) + 3),
         newmcc,
         grk_read(data, pos + 2 + (1 + nb_comps \div 32768) * (nb_comps % 32768), 3))

\* Cmcc, after m_nb_comps was stored
mccInputs(o, data, header_size, slot, newmcc, nb_bytes_by_comp, n) ==
  IF header_size < nb_bytes_by_comp * n + 2 THEN mccReturn(o, FALSE, FALSE)
  ELSE IF Shuffled(data, 11, nb_bytes_by_comp, n) THEN mccReturn(o, TRUE, TRUE)
  ELSE mccOutputs(o, data, header_size - (nb_bytes_by_comp * n + 2), slot, newmcc,
                  11 + nb_bytes_by_comp * n,
                  grk_read(data, 11 + nb_bytes_by_comp * n, 2))

\* the collection: Xmcc, then Nmcc, whose low 15 bits go to m_nb_comps
mccCollection(o, data, header_size, slot, newmcc) ==
  IF header_size < 3 THEN mccReturn(o, FALSE, FALSE)
  ELSE IF grk_read(data, 8, 1) # 1 THEN mccReturn(o, TRUE, TRUE)
  ELSE mccInputs([o EXCEPT !.m_mcc_records[slot + 1].m_nb_comps =
                              grk_read(data, 9, 2) % 32768],
                 data, header_size - 3, slot, newmcc,
                 1 + grk_read(data, 9, 2) \div 32768, grk_read(data, 9, 2) % 32768)

\* mcc_record->m_index = index, then Ymcc and Qmcc
mccHeader(o, data, header_size, slot, newmcc, index) ==
  IF grk_read(data, 4, 2) # 0
    THEN mccReturn([o EXCEPT !.m_mcc_records[slot + 1].m_index = index], TRUE, TRUE)
  ELSE IF grk_read(data, 6, 2) > 1
    THEN mccReturn([o EXCEPT !.m_mcc_records[slot + 1].m_index = index], TRUE, TRUE)
  ELSE IF grk_read(data, 6, 2) = 0
    THEN mccEnd([o EXCEPT !.m_mcc_records[slot + 1].m_index = index],
                header_size - 7, newmcc)
  ELSE mccCollection([o EXCEPT !.m_mcc_records[slot + 1].m_index = index],
                     data, header_size - 7, slot, newmcc)

\* the record of Imcc is looked up; a new one takes the slot after the last
mccRecord(o, data, header_size, index, reallocOk) ==
  IF mccFind(o, index, 0) < o.m_nb_mcc_records
    THEN mccHeader(o, data, header_size, mccFind(o, index, 0), FALSE, index)
  ELSE IF o.m_nb_mcc_records # o.m_nb_max_mcc_records
    THEN mccHeader(o, data, header_size, o.m_nb_mcc_records, TRUE, index)
  ELSE IF reallocOk
    THEN mccHeader(mccGrow(o), data, header_size, o.m_nb_mcc_records, TRUE, index)
    ELSE mccReturn(mccWiped(o), FALSE, FALSE)

read_mcc(o, headerData, header_size, reallocOk) ==
  IF header_size < 2 THEN mccReturn(o, FALSE, FALSE)
  ELSE IF grk_read(headerData, 1, 2) # 0 THEN mccReturn(o, TRUE, TRUE)
  ELSE IF header_size < 7 THEN mccReturn(o, FALSE, FALSE)
  ELSE mccRecord(o, headerData, header_size, grk_read(headerData, 3, 1), reallocOk)

\* the bytes of the indices 0..n-1, or of a list with an index out of place
RECURSIVE IndexBytes(_, _)
IndexBytes(n, nb) ==
  IF n = 0 THEN << >> ELSE IndexBytes(n - 1, nb) \o BigEndian(n - 1, nb)
RECURSIVE ShuffledBytes(_, _)
ShuffledBytes(n, nb) ==
  IF n = 0 THEN << >> ELSE BigEndian(n - 1, nb) \o ShuffledBytes(n - 1, nb)

\* an MCC segment from its fields; f.nb is the number of bytes of an index
MccBytes(f) ==
  BigEndian(f.Zmcc, 2) \o BigEndian(f.Imcc, 1) \o BigEndian(f.Ymcc, 2)
    \o BigEndian(f.Qmcc, 2)
    \o (IF f.Qmcc = 0 THEN << >>
        ELSE BigEndian(f.Xmcc, 1) \o BigEndian((f.nb - 1) * 32768 + f.Nmcc, 2)
          \o (IF f.shuffleC THEN ShuffledBytes(f.Nmcc, f.nb)
                            ELSE IndexBytes(f.Nmcc, f.nb))
          \o BigEndian((f.nb - 1) * 32768 + f.Mmcc, 2)
          \o (IF f.shuffleW THEN ShuffledBytes(f.Mmcc, f.nb)
                            ELSE IndexBytes(f.Mmcc, f.nb))
          \o BigEndian(f.Tmcc, 3))
    \o f.pad

\* a segment this decoder supports
GoodMcc(Imcc, Nmcc, nb, Tmcc) ==
  [Zmcc |-> 0, Imcc |-> Imcc, Ymcc |-> 0, Qmcc |-> 1, Xmcc |-> 1, nb |-> nb,
   Nmcc |-> Nmcc, Mmcc |-> Nmcc, shuffleC |-> FALSE, shuffleW |-> FALSE,
   Tmcc |-> Tmcc, pad |-> << >>]
GoodMccs ==
  {GoodMcc(i, n, nb, t) :
     i \in {1, 2}, n \in 1..MaxMccComps, nb \in {1, 2}, t \in {0, 1, 65536 + 2 * 256 + 1}}
\* the segments that use a feature this decoder does not support, or are malformed
VariantsOf(g) ==
  {[g EXCEPT !.Zmcc = 1], [g EXCEPT !.Ymcc = 1], [g EXCEPT !.Qmcc = 2],
   [g EXCEPT !.Xmcc = 0], [g EXCEPT !.shuffleC = g.Nmcc > 1],
   [g EXCEPT !.shuffleW = g.Nmcc > 1], [g EXCEPT !.Mmcc = g.Nmcc + 1],
   [g EXCEPT !.Qmcc = 0], [g EXCEPT !.Tmcc = 3], [g EXCEPT !.pad = <<0>>]}
MccSegments ==
  {MccBytes(f) : f \in GoodMccs \cup UNION {VariantsOf(g) : g \in GoodMccs}}
    \cup {<<0>>, <<0, 0, 1>>}

InitMcc ==
  /\ InitVars /\ state = {"MH"} /\ pc = "handlers" /\ m_curr_marker = 0
  /\ NoCaches_Markers
  /\ dwt = NoObject /\ tasks = NoObject /\ win = NoObject /\ hdr = NoObject
  /\ NoTools
  /\ mcc = [tcp |-> NewMccTcp, rc |-> TRUE, warn |-> FALSE, reads |-> 0,
            headerData |-> << >>]

MccIdle ==
  UNCHANGED <<hvars, pvars, tlm, tlmOut, pl, plOut, sched, worker, block,
              dwt, tasks, win, hdr, tvars>>

\* the handler of an MCC marker segment; a failure ends the header reading
MccMarker(headerData, reallocOk) ==
  /\ mcc.rc /\ mcc.reads < MaxMccReads
  /\ \E r \in {read_mcc(mcc.tcp, headerData, Len(headerData), reallocOk)} :
       mcc' = [tcp |-> r.o, rc |-> r.rc, warn |-> r.warn,
               reads |-> mcc.reads + 1, headerData |-> headerData]
  /\ MccIdle

NextMcc == \E headerData \in MccSegments, reallocOk \in BOOLEAN :
             MccMarker(headerData, reallocOk)

SpecMcc == InitMcc /\ [][NextMcc]_vars

(***************************************************************************)
(* Claims about the MCC marker.                                            *)
(***************************************************************************)
\* C27: an MCC marker that uses an unsupported feature is ignored: read_mcc
\* returns true and the records of the TCP are as before: the same number of
\* records, and every record with its index, number of components and arrays.
C27_UnsupportedMccIgnored ==
  [][mcc'.warn =>
       /\ mcc'.rc
       /\ mcc'.tcp.m_nb_mcc_records = mcc.tcp.m_nb_mcc_records
       /\ \A k \in 1..mcc.tcp.m_nb_mcc_records :
            /\ mcc'.tcp.m_mcc_records[k].m_index = mcc.tcp.m_mcc_records[k].m_index
            /\ mcc'.tcp.m_mcc_records[k].m_nb_comps =
                 mcc.tcp.m_mcc_records[k].m_nb_comps
            /\ mcc'.tcp.m_mcc_records[k].m_decorrelation_array =
                 mcc.tcp.m_mcc_records[k].m_decorrelation_array
            /\ mcc'.tcp.m_mcc_records[k].m_offset_array =
                 mcc.tcp.m_mcc_records[k].m_offset_array]_vars

(***************************************************************************)
(* CodeStreamDecompress::read_mct: the MCT marker adds or rewrites one of  *)
(* the current TCP's MCT records; the MCC records point into their array.  *)
(***************************************************************************)
MaxMctRecords == 11
MaxMcoReads == 1

\* the TCP without MCT and MCC records
EmptyMctTcp ==
  [NewMccTcp EXCEPT !.m_mct_records = 0, !.mct_array = << >>,
                    !.m_nb_mct_records = 0, !.m_nb_max_mct_records = 0]

\* the pointers of the counted MCC records left as they are after the array moved
mctFixup_None(o, new_mct_records) == o.m_mcc_records

\* the pointers of the counted MCC records moved to the new array:
\* new_mct_records + (pointer - tcp->m_mct_records)
mctFixup(o, new_mct_records) ==
  [k \in DOMAIN o.m_mcc_records |->
     IF k <= o.m_nb_mcc_records
       THEN [o.m_mcc_records[k] EXCEPT
               !.m_decorrelation_array =
                  IF @ # 0 THEN new_mct_records + (@ - o.m_mct_records) ELSE @,
               !.m_offset_array =
                  IF @ # 0 THEN new_mct_records + (@ - o.m_mct_records) ELSE @]
       ELSE o.m_mcc_records[k]]

\* grkRealloc gave the array at new_mct_records: the pointers are updated when
\* it moved, and the places past the counted records are zeroed
mctGrow(o, new_mct_records) ==
  [o EXCEPT
     !.m_nb_max_mct_records = @ + default_number_mct_records,
     !.m_mcc_records = IF new_mct_records # o.m_mct_records
                         THEN mctFixup(o, new_mct_records) ELSE @,
     !.m_mct_records = new_mct_records,
     !.mct_array =
        [k \in 1..(o.m_nb_max_mct_records + default_number_mct_records) |->
           IF k <= o.m_nb_mct_records THEN o.mct_array[k] ELSE ZeroMct]]

\* the failed grkRealloc
mctWiped(o) ==
  [o EXCEPT !.m_mct_records = 0, !.mct_array = << >>,
            !.m_nb_max_mct_records = 0, !.m_nb_mct_records = 0]

\* where grkRealloc places the array: in place, or at another address
reallocAt(o, realloc) ==
  IF realloc = "same" /\ o.m_mct_records # 0 THEN o.m_mct_records
  ELSE OtherBase(o.m_mct_records)

\* the record at slot: its data freed, Imct stored, then Ymct and the data
mctStore(o, data, header_size, slot, newmct, tmp) ==
  IF grk_read(data, 5, 2) # 0
    THEN mccReturn([o EXCEPT !.mct_array[slot + 1] =
                      MctRecord(tmp % 256, (tmp \div 256) % 4, (tmp \div 1024) % 4, << >>)],
                   TRUE, TRUE)
  ELSE IF header_size <= 6
    THEN mccReturn([o EXCEPT !.mct_array[slot + 1] =
                      MctRecord(tmp % 256, (tmp \div 256) % 4, (tmp \div 1024) % 4, << >>)],
                   FALSE, FALSE)
  ELSE mccReturn([o EXCEPT !.mct_array[slot + 1] =
                     MctRecord(tmp % 256, (tmp \div 256) % 4, (tmp \div 1024) % 4,
                               SubSeq(data, 7, header_size)),
                   !.m_nb_mct_records = IF newmct THEN @ + 1 ELSE @],
                 TRUE, FALSE)

\* the record of Imct is looked up; a new one takes the place after the last
mctRecord(o, data, header_size, tmp, realloc) ==
  IF mctFind(o, tmp % 256, 0) < o.m_nb_mct_records
    THEN mctStore(o, data, header_size, mctFind(o, tmp % 256, 0), FALSE, tmp)
  ELSE IF o.m_nb_mct_records # o.m_nb_max_mct_records
    THEN mctStore(o, data, header_size, o.m_nb_mct_records, TRUE, tmp)
  ELSE IF realloc # "fail"
    THEN mctStore(mctGrow(o, reallocAt(o, realloc)), data, header_size,
                  o.m_nb_mct_records, TRUE, tmp)
    ELSE mccReturn(mctWiped(o), FALSE, FALSE)

\* read_mct(headerData, header_size); realloc is what grkRealloc does when the
\* array is full: "same", "moved" or "fail".  The segments have 6 bytes or
\* more, or fewer than 2.
read_mct(o, headerData, header_size, realloc) ==
  IF header_size < 2 THEN mccReturn(o, FALSE, FALSE)
  ELSE IF grk_read(headerData, 1, 2) # 0 THEN mccReturn(o, TRUE, TRUE)
  ELSE mctRecord(o, headerData, header_size, grk_read(headerData, 3, 2), realloc)

(***************************************************************************)
(* read_mco, add_mct                                                       *)
(***************************************************************************)
\* MCT_ELEMENT_SIZE: bytes of an element of type int16, int32, float, double
MCT_ELEMENT_SIZE(element_type) == IF element_type = 0 THEN 2 ELSE IF element_type = 3 THEN 8 ELSE 4

\* the MCT record a pointer of an MCC record points to; a pointer outside the
\* current array is dangling
Dangling(o, p) == p - o.m_mct_records \notin 0..(o.m_nb_max_mct_records - 1)
Deref(o, p) == o.mct_array[p - o.m_mct_records + 1]

\* element i of m_data read as big-endian int16 (the element type of the menu)
Int16At(data, i) ==
  IF grk_read(data, 2 * i + 1, 2) >= 32768 THEN grk_read(data, 2 * i + 1, 2) - 65536
  ELSE grk_read(data, 2 * i + 1, 2)

\* nb_elem elements of the record's data (int16 records only; others give zeros)
ReadElements(rec, nb_elem) ==
  [i \in 1..nb_elem |-> IF rec.m_element_type = 0 THEN Int16At(rec.m_data, i - 1) ELSE 0]

\* result of add_mct: the TCP, the value returned, whether a dangling pointer
\* was followed, and the position of the MCC record used (-1: stage discarded)
mcoReturn(o, rc, ub, used) == [o |-> o, rc |-> rc, ub |-> ub, used |-> used]

\* the search of add_mct: mcc_record stays at the first record while i counts
addFind(o, index) ==
  IF o.m_nb_mcc_records > 0 /\ o.m_mcc_records[1].m_index = index
    THEN 0 ELSE o.m_nb_mcc_records

\* the offset array of the record at pos gives the DC level shifts
addOffsets(o, pos, p) ==
  IF p = 0 THEN mcoReturn(o, TRUE, FALSE, pos)
  ELSE IF Dangling(o, p) THEN mcoReturn(o, FALSE, TRUE, pos)
  ELSE IF Len(Deref(o, p).m_data) # MCT_ELEMENT_SIZE(Deref(o, p).m_element_type) * NumComps
    THEN mcoReturn(o, FALSE, FALSE, pos)
  ELSE mcoReturn([o EXCEPT !.m_dc_level_shift =
                     [c \in Comps |-> ReadElements(Deref(o, p), NumComps)[c + 1]]],
                 TRUE, FALSE, pos)

\* the decorrelation array of the record at pos gives the decoding matrix
addMatrix(o, pos, p) ==
  IF p = 0 THEN addOffsets(o, pos, o.m_mcc_records[pos + 1].m_offset_array)
  ELSE IF Dangling(o, p) THEN mcoReturn(o, FALSE, TRUE, pos)
  ELSE IF Len(Deref(o, p).m_data)
            # MCT_ELEMENT_SIZE(Deref(o, p).m_element_type) * NumComps * NumComps
    THEN mcoReturn(o, FALSE, FALSE, pos)
  ELSE addOffsets([o EXCEPT !.m_mct_decoding_matrix =
                      ReadElements(Deref(o, p), NumComps * NumComps)],
                  pos, o.m_mcc_records[pos + 1].m_offset_array)

addRecord(o, pos) ==
  IF pos = o.m_nb_mcc_records THEN mcoReturn(o, TRUE, FALSE, -1)
  ELSE IF o.m_mcc_records[pos + 1].m_nb_comps # NumComps
    THEN mcoReturn(o, TRUE, FALSE, -1)
  ELSE addMatrix(o, pos, o.m_mcc_records[pos + 1].m_decorrelation_array)

add_mct(o, index) == addRecord(o, addFind(o, index))

\* read_mco(headerData, header_size): one stage at most
read_mco(o, headerData, header_size) ==
  IF header_size < 1 THEN mcoReturn(o, FALSE, FALSE, -1)
  ELSE IF headerData[1] > 1 THEN mcoReturn(o, TRUE, FALSE, -1)
  ELSE IF header_size # headerData[1] + 1 THEN mcoReturn(o, FALSE, FALSE, -1)
  ELSE IF headerData[1] = 0
    THEN mcoReturn([o EXCEPT !.m_dc_level_shift = [c \in Comps |-> 0],
                             !.m_mct_decoding_matrix = << >>], TRUE, FALSE, -1)
  ELSE add_mct([o EXCEPT !.m_dc_level_shift = [c \in Comps |-> 0],
                         !.m_mct_decoding_matrix = << >>], headerData[2])

(***************************************************************************)
(* SpecMct: MCT, MCC and MCO markers are read into one TCP that starts     *)
(* without records; the MCT record array fills up and is reallocated.      *)
(***************************************************************************)
\* an MCT segment: Zmct, Imct, Ymct and the array data
MctBytes(Zmct, Imct, Ymct, data) ==
  BigEndian(Zmct, 2) \o BigEndian(Imct, 2) \o BigEndian(Ymct, 2) \o data

\* records with an odd index hold a decorrelation matrix of NumComps x NumComps
\* int16 elements, those with an even index NumComps int16 offsets
MctData(index) ==
  IF index % 2 = 1 THEN <<0, 1, 0, 0, 0, 0, 0, 1>> ELSE <<255, 255, 0, 3>>
MctImct(index) == index + 256 * (IF index % 2 = 1 THEN 1 ELSE 2)

\* the segments offered when n records are stored: records 1 and 2 (new or
\* rewritten), the next new record, and segments that are not supported or
\* malformed
MctSegments(n) ==
  {MctBytes(0, MctImct(i), 0, MctData(i)) : i \in {1, 2, n + 1}}
    \cup {MctBytes(1, MctImct(1), 0, MctData(1)),
          MctBytes(0, MctImct(1), 1, MctData(1)),
          MctBytes(0, MctImct(n + 1), 0, << >>),
          <<0>>}

\* MCC segments for the image's components that name the MCT records 1 and 2
\* as arrays, a segment for one component, and one that names a missing record
MctMccFields ==
  {GoodMcc(i, NumComps, 1, d + 256 * o) : i \in {1, 2}, d \in {0, 1}, o \in {0, 2}}
    \cup {GoodMcc(1, 1, 1, 1), GoodMcc(2, NumComps, 1, MaxMctRecords + 1)}

\* MCO segments: one stage with index 1, 2 or 3, no stage, two stages,
\* a missing stage
McoSegments == {<<1, i>> : i \in 1..3} \cup {<<0>>, <<2, 1, 1>>, <<1>>, << >>}

NoArrays == [d |-> 0, o |-> 0]

\* named: the MCT indices the last MCC marker read for each Imcc named in Tmcc;
\* moved: the step reallocated the MCT array to another address
InitMct ==
  /\ InitVars /\ state = {"MH"} /\ pc = "handlers" /\ m_curr_marker = 0
  /\ NoCaches_Markers
  /\ dwt = NoObject /\ tasks = NoObject /\ win = NoObject /\ hdr = NoObject
  /\ NoTools
  /\ mcc = [tcp |-> EmptyMctTcp, rc |-> TRUE, warn |-> FALSE, reads |-> 0,
            headerData |-> << >>, op |-> "none", named |-> [i \in 1..2 |-> NoArrays],
            moved |-> FALSE, mcos |-> 0, ub |-> FALSE, used |-> -1]

\* the handler of an MCT marker segment
MctMarker(headerData, realloc) ==
  /\ mcc.rc /\ mcc.tcp.m_nb_mct_records < MaxMctRecords
  /\ \E r \in {read_mct(mcc.tcp, headerData, Len(headerData), realloc)} :
       mcc' = [mcc EXCEPT !.tcp = r.o, !.rc = r.rc, !.warn = r.warn,
                          !.headerData = headerData, !.op = "MCT",
                          !.moved = /\ r.rc
                                    /\ mcc.tcp.m_mct_records # 0
                                    /\ r.o.m_mct_records # mcc.tcp.m_mct_records,
                          !.used = -1]
  /\ MccIdle

\* the handler of an MCC marker segment
MctMccMarker(f, reallocOk) ==
  /\ mcc.rc /\ mcc.reads < MaxMccReads
  /\ \E r \in {read_mcc(mcc.tcp, MccBytes(f), Len(MccBytes(f)), reallocOk)} :
       mcc' = [mcc EXCEPT !.tcp = r.o, !.rc = r.rc, !.warn = r.warn,
                          !.reads = @ + 1, !.headerData = MccBytes(f), !.op = "MCC",
                          !.named = IF r.rc /\ ~r.warn
                                      THEN [@ EXCEPT ![f.Imcc] =
                                              [d |-> f.Tmcc % 256,
                                               o |-> (f.Tmcc \div 256) % 256]]
                                      ELSE @,
                          !.moved = FALSE, !.used = -1]
  /\ MccIdle

\* the handler of an MCO marker segment
McoMarker(headerData) ==
  /\ mcc.rc /\ mcc.mcos < MaxMcoReads
  /\ \E r \in {read_mco(mcc.tcp, headerData, Len(headerData))} :
       mcc' = [mcc EXCEPT !.tcp = r.o, !.rc = r.rc, !.warn = FALSE,
                          !.headerData = headerData, !.op = "MCO",
                          !.moved = FALSE, !.mcos = @ + 1, !.ub = r.ub,
                          !.used = r.used]
  /\ MccIdle

NextMct ==
  \/ \E headerData \in MctSegments(mcc.tcp.m_nb_mct_records),
        realloc \in {"same", "moved", "fail"} : MctMarker(headerData, realloc)
  \/ \E f \in MctMccFields, reallocOk \in BOOLEAN : MctMccMarker(f, reallocOk)
  \/ \E headerData \in McoSegments : McoMarker(headerData)

SpecMct == InitMct /\ [][NextMct]_vars

(***************************************************************************)
(* Claims about the MCT records and the MCO stages.                        *)
(***************************************************************************)
\* pointer p designates the counted MCT record with m_index = index inside
\* the current array (nullptr when no index was named)
Designates(o, p, index) ==
  IF index = 0 THEN p = 0
  ELSE /\ p - o.m_mct_records \in 0..(o.m_nb_mct_records - 1)
       /\ o.mct_array[p - o.m_mct_records + 1].m_index = index

StageRecords(o, index) ==
  {k \in 1..o.m_nb_mcc_records :
     o.m_mcc_records[k].m_index = index /\ o.m_mcc_records[k].m_nb_comps = NumComps}

\* C36 (as claimed): for an MCO marker with one stage of index i, add_mct uses
\* the MCC record with m_index = i wherever it is among the counted records,
\* and discards the stage only when no record has that index.
C36_StageUsesRecordOfIndex ==
  (mcc.op = "MCO" /\ Len(mcc.headerData) = 2 /\ mcc.headerData[1] = 1) =>
    IF StageRecords(mcc.tcp, mcc.headerData[2]) = {}
      THEN mcc.used = -1
      ELSE mcc.used + 1 \in StageRecords(mcc.tcp, mcc.headerData[2])

\* C36 (what the code does keep): the stage is used when the first MCC record
\* has its index, and discarded otherwise
C36_StageUsesFirstRecordOnly ==
  (mcc.op = "MCO" /\ Len(mcc.headerData) = 2 /\ mcc.headerData[1] = 1) =>
    IF 1 \in StageRecords(mcc.tcp, mcc.headerData[2])
      THEN mcc.used = 0
      ELSE mcc.used = -1

(***************************************************************************)
(* COD and COC bodies with the code-block exponents and styles at their    *)
(* limits, and the CBD and RGN markers of the main header.                 *)
(***************************************************************************)
\* the header image after SIZ: every component with the same precision
SizPrecisions == {1, 38}
NewHdr(prec) ==
  [data |-> << >>, compno |-> 0,
   comps |-> [c \in Comps |-> [prec |-> prec, sgnd |-> 0]],
   roishift |-> [c \in Comps |-> 0]]

InitHdr ==
  /\ InitVars /\ state = {"MH"} /\ pc = "handlers" /\ m_curr_marker = 0
  /\ NoCaches_Markers
  /\ dwt = NoObject /\ tasks = NoObject /\ win = NoObject /\ mcc = NoObject
  /\ NoTools
  /\ \E prec \in SizPrecisions : hdr = NewHdr(prec)

HdrIdle ==
  UNCHANGED <<state, cur, pvars, tlm, tlmOut, pl, plOut, sched, worker, block,
              dwt, tasks, win, mcc, tvars>>

\* SPCod and SPCoc with exponents and styles at and past their limits
CblkExponents == {0, 8, 9}
CblkStyles == {0, GRK_CBLKSTY_HT, GRK_CBLKSTY_HT + 1}
CblkBodies ==
  {SP(0, w, h, sty, 1, << >>) : w \in CblkExponents, h \in CblkExponents,
                                sty \in CblkStyles}

\* the COD marker segment
CblkCod(sp) ==
  /\ last.ok /\ InHeader
  /\ Call_read_cod(<<0, 0, 0, 1, 0>> \o sp)
  /\ hdr' = [hdr EXCEPT !.data = sp, !.compno = 0]
  /\ HdrIdle

\* the COC marker segment of component c
CblkCoc(c, sp) ==
  /\ last.ok /\ InHeader
  /\ Call_read_coc(<<c, 0>> \o sp)
  /\ hdr' = [hdr EXCEPT !.data = sp, !.compno = c]
  /\ HdrIdle

NextCblk ==
  \/ \E sp \in CblkBodies : CblkCod(sp)
  \/ \E c \in Comps, sp \in CblkBodies : CblkCoc(c, sp)

SpecCblk == InitHdr /\ [][NextCblk]_vars

\* read_cbd: sgnd and prec of every component from its byte of the marker
read_cbd(comps, headerData, header_size) ==
  IF header_size < 2 \/ header_size - 2 # NumComps
    THEN [ok |-> FALSE, comps |-> comps]
  ELSE IF grk_read(headerData, 1, 2) # NumComps
    THEN [ok |-> FALSE, comps |-> comps]
  ELSE [ok |-> TRUE,
        comps |-> [c \in Comps |->
                     [sgnd |-> (headerData[3 + c] \div 128) % 2,
                      prec |-> ((headerData[3 + c] % 128) + 1) % 256]]]

\* read_rgn: SPrgn is stored in the TCCP of component Crgn, then tested
read_rgn(roishift, headerData, header_size) ==
  IF header_size # 2 + (IF NumComps <= 256 THEN 1 ELSE 2)
    THEN [ok |-> FALSE, roishift |-> roishift]
  ELSE IF headerData[2] # 0 THEN [ok |-> FALSE, roishift |-> roishift]
  ELSE IF headerData[1] >= NumComps THEN [ok |-> FALSE, roishift |-> roishift]
  ELSE [ok |-> headerData[3] < 32,
        roishift |-> [roishift EXCEPT ![headerData[1]] = headerData[3]]]

\* CBD bodies: Ncbd and one byte per component; a wrong count; a short body
CbdBytes == {0, 37, 38, 127, 128 + 7}
CbdMenu ==
  {BigEndian(NumComps, 2) \o <<a, b>> : a \in CbdBytes, b \in {7, 38}}
    \cup {BigEndian(NumComps + 1, 2) \o <<7, 7>>, <<0>>}
\* RGN bodies: Crgn, Srgn, SPrgn; a short body
RgnMenu ==
  {<<c, s, sp>> : c \in 0..NumComps, s \in {0, 1}, sp \in {0, 31, 32, 255}}
    \cup {<<0, 0>>}

CbdMarker(headerData) ==
  /\ last.ok /\ InHeader
  /\ \E r \in {read_cbd(hdr.comps, headerData, Len(headerData))} :
       /\ hdr' = [hdr EXCEPT !.comps = r.comps, !.data = headerData]
       /\ last' = CallRec("CBD", headerData, r.ok)
  /\ UNCHANGED <<m_default_tcp, tcps, scope>>
  /\ HdrIdle

RgnMarker(headerData) ==
  /\ last.ok /\ InHeader
  /\ \E r \in {read_rgn(hdr.roishift, headerData, Len(headerData))} :
       /\ hdr' = [hdr EXCEPT !.roishift = r.roishift, !.data = headerData]
       /\ last' = CallRec("RGN", headerData, r.ok)
  /\ UNCHANGED <<m_default_tcp, tcps, scope>>
  /\ HdrIdle

NextCbdRgn ==
  \/ \E headerData \in CbdMenu : CbdMarker(headerData)
  \/ \E headerData \in RgnMenu : RgnMarker(headerData)

SpecCbdRgn == InitHdr /\ [][NextCbdRgn]_vars

(***************************************************************************)
(* Claims about the code-block sizes, the precisions and the ROI shifts.   *)
(***************************************************************************)
\* the components whose parameters the last COD or COC wrote
WrittenComps == IF last.op = "COD" THEN Comps ELSE {hdr.compno}

\* C28: after a successful COD or COC the code-block exponents are in 2..10
\* with a sum of at most 12; a marker whose exponents break these bounds is
\* rejected; a style with the HT bit is accepted only with no other bit.
C28_CodeBlockExponentsBounded ==
  last.op \in {"COD", "COC"} =>
    /\ last.ok =>
         /\ \A c \in WrittenComps :
              /\ m_default_tcp.tccps[c].cblkw = hdr.data[2] + 2
              /\ m_default_tcp.tccps[c].cblkh = hdr.data[3] + 2
              /\ m_default_tcp.tccps[c].cblkw \in 2..10
              /\ m_default_tcp.tccps[c].cblkh \in 2..10
              /\ m_default_tcp.tccps[c].cblkw + m_default_tcp.tccps[c].cblkh <= 12
         /\ BitSet(hdr.data[4], GRK_CBLKSTY_HT) => hdr.data[4] = GRK_CBLKSTY_HT
    /\ ( \/ hdr.data[2] + 2 > 10 \/ hdr.data[3] + 2 > 10
         \/ hdr.data[2] + hdr.data[3] + 4 > 12 ) => ~last.ok

\* a COC with the widest code-block and the HT style was accepted after a COD
C28_Witness ==
  /\ last.op = "COC" /\ last.ok /\ m_default_tcp.cod
  /\ \E c \in Comps : /\ m_default_tcp.tccps[c].cblkw = 10
                      /\ m_default_tcp.tccps[c].cblkh = 2
                      /\ m_default_tcp.tccps[c].cblk_sty = GRK_CBLKSTY_HT
  /\ \E c \in Comps : m_default_tcp.tccps[c].cblkw = 2

\* C29: after any accepted sequence of header markers every component of the
\* image has a precision in 1..38; a CBD marker that is accepted sets each
\* precision to a value in 1..38.
C29_PrecisionWithin38 ==
  last.ok => \A c \in Comps : hdr.comps[c].prec \in 1..38

\* C30: after any sequence of RGN markers, accepted or not, every component's
\* ROI shift is below 32; a marker with SPrgn >= 32 is rejected and leaves the
\* stored shift as it was.
C30_RoiShiftBelow32 ==
  \A c \in Comps : hdr.roishift[c] < 32

(***************************************************************************)
(* Claims about what a QCD applies and about ignored QCD/QCC markers.      *)
(***************************************************************************)
\* the bands whose step sizes a body of style qntsty and size Len(d) carries
CarriedBands(d) ==
  {b \in Bands : b < NumStepSizesOf(d[1] % 32, Len(d) - 1)}

\* component tccp holds the style, guard bits and step sizes the body d carries
HoldsCarried(tccp, d) ==
  /\ tccp.qntsty = d[1] % 32
  /\ tccp.numgbits = d[1] \div 32
  /\ \A b \in CarriedBands(d) : tccp.stepsizes[b] = StepOf(d[1] % 32, d, b)

\* component c is one the QCD of this header is due to: no QCC has bound it
\* and no QCD of this header's precedence has been applied to it yet
QcdDue(c, fth) ==
  /\ ~get_current_decode_tcp.tccps[c].fromQCC
  /\ CurScope.q[c] < Prec(FALSE, fth)

\* C32 (as claimed): in any header state, a well-formed QCD marker that
\* read_qcd reads successfully leaves every component that no QCC has bound
\* with the qntsty, numgbits and step sizes the marker carries, whether or
\* not component 0 is bound by a QCC.
C32_QcdAppliedToUnboundComps ==
  (InHeader /\ last.ok) =>
    \A d \in QcdMenu :
      WellFormedQcd(d) =>
        LET r == read_qcd(get_current_decode_tcp, isDecodingTilePartHeader, d)
        IN  r.ok => \A c \in Comps :
                      QcdDue(c, isDecodingTilePartHeader) => HoldsCarried(r.tcp.tccps[c], d)

\* C32 (what the code does keep): the same, in the header states in which the
\* marker is not ignored for component 0
C32_AppliedWhenComp0Takes ==
  (InHeader /\ last.ok) =>
    \A d \in QcdMenu :
      (/\ WellFormedQcd(d)
       /\ ~ScopeIgnore(get_current_decode_tcp.tccps[0], FALSE, isDecodingTilePartHeader)) =>
        LET r == read_qcd(get_current_decode_tcp, isDecodingTilePartHeader, d)
        IN  r.ok => \A c \in Comps :
                      QcdDue(c, isDecodingTilePartHeader) => HoldsCarried(r.tcp.tccps[c], d)

\* a QCC body: the component number and a well-formed SQcc part
WellFormedQcc(d) ==
  Len(d) >= 1 /\ d[1] < NumComps /\ WellFormedQcd(Tail(d))

\* C35 (as claimed): in any header state, a well-formed QCD or QCC marker
\* that the scoping rules ignore is read successfully and leaves the
\* quantization parameters of its component as they were, whatever style and
\* number of step sizes it carries.
C35_IgnoredMarkerParsed ==
  (InHeader /\ last.ok) =>
    /\ \A d \in QcdMenu :
         (/\ WellFormedQcd(d)
          /\ ScopeIgnore(get_current_decode_tcp.tccps[0], FALSE, isDecodingTilePartHeader)) =>
           LET r == read_qcd(get_current_decode_tcp, isDecodingTilePartHeader, d)
           IN  r.ok /\ Quant(r.tcp.tccps[0]) = Quant(get_current_decode_tcp.tccps[0])
    /\ \A d \in QccMenu :
         (/\ WellFormedQcc(d)
          /\ ScopeIgnore(get_current_decode_tcp.tccps[d[1]], TRUE, isDecodingTilePartHeader)) =>
           LET r == read_qcc(get_current_decode_tcp, isDecodingTilePartHeader, d)
           IN  r.ok /\ Quant(r.tcp.tccps[d[1]]) = Quant(get_current_decode_tcp.tccps[d[1]])

\* C35 (what the code does keep): an ignored marker never changes the
\* quantization parameters of its component, read successfully or not
C35_IgnoredMarkerChangesNothing ==
  (InHeader /\ last.ok) =>
    /\ \A d \in QcdMenu :
         (/\ WellFormedQcd(d)
          /\ ScopeIgnore(get_current_decode_tcp.tccps[0], FALSE, isDecodingTilePartHeader)) =>
           Quant(read_qcd(get_current_decode_tcp, isDecodingTilePartHeader, d).tcp.tccps[0])
             = Quant(get_current_decode_tcp.tccps[0])
    /\ \A d \in QccMenu :
         (/\ WellFormedQcc(d)
          /\ ScopeIgnore(get_current_decode_tcp.tccps[d[1]], TRUE, isDecodingTilePartHeader)) =>
           Quant(read_qcc(get_current_decode_tcp, isDecodingTilePartHeader, d).tcp.tccps[d[1]])
             = Quant(get_current_decode_tcp.tccps[d[1]])

(***************************************************************************)
(* Claims about the broken sequence and about popNextPacketLength.         *)
(***************************************************************************)
\* no entry of the map holds a null vector (only operator[] of
\* popNextPacketLength makes such entries)
NoNullMarker(o) == \A k \in DOMAIN o.markers_ : ~o.markers_[k].null

IsPrefix(s, t) == Len(s) <= Len(t) /\ SubSeq(t, 1, Len(s)) = s

\* the new map is the old one with lengths appended to the list under index z
\* (a new list when z had none), every other list as it was
AppendedUnder(old, new, z) ==
  /\ DOMAIN new = DOMAIN old \cup {z}
  /\ \A k \in DOMAIN old \ {z} : new[k] = old[k]
  /\ ~new[z].null
  /\ IsPrefix(IF z \in DOMAIN old THEN old[z].items ELSE << >>, new[z].items)

\* C33: in a sequence of readPLT/readPLM calls on one index, once a call has
\* left sequential_ false no later call makes it true, and every call that
\* succeeds with sequential_ false appends the marker's lengths to the list
\* stored under the signalled index and leaves the other lists alone.
C33_BrokenSequenceStaysBroken ==
  [][ (plOut'.op \in {"readPLT", "readPLM"} /\ NoNullMarker(pl)) =>
        /\ (~pl.sequential_ /\ DOMAIN pl.markers_ # {}) => ~pl'.sequential_
        /\ (plOut'.ok /\ ~pl'.sequential_) =>
             AppendedUnder(pl.markers_, pl'.markers_, plOut'.arg) ]_vars

\* C33 witness: the first marker signalled index 1 and broke the sequence; a
\* second marker with index 1, which is the number of markers stored, was read
\* successfully with sequential_ still false, and its lengths follow those of
\* the first in the list under index 1
C33_Witness ==
  /\ plOut.op = "readPLT" /\ plOut.ok /\ plOut.arg = 1 /\ plOut.reads = 2
  /\ ~pl.sequential_
  /\ DOMAIN pl.markers_ = {1}
  /\ pl.markers_[1].items = <<1, 2>>

\* C37 (as claimed): on every index built by successful readPLT/readPLM calls
\* and rewound, popNextPacketLength reads no element at or beyond the end of
\* the current marker's list and adds no entry to the marker map.
C37_PopStaysInsideLists ==
  (plOut.rewound /\ ~plOut.failed /\ ~plOut.ub) =>
     LET r == popNextPacketLength(pl)
     IN  ~r.ub /\ DOMAIN r.o.markers_ = DOMAIN pl.markers_

\* C37 (what the code does keep): the same when the stored marker indices are
\* 0..n-1 and every marker holds at least one length
C37_PopInsideContiguousNonEmpty ==
  (/\ plOut.rewound /\ ~plOut.failed /\ ~plOut.ub
   /\ DOMAIN pl.markers_ = 0..(Cardinality(DOMAIN pl.markers_) - 1)
   /\ \A k \in DOMAIN pl.markers_ : ~pl.markers_[k].null /\ pl.markers_[k].items # << >>) =>
     LET r == popNextPacketLength(pl)
     IN  ~r.ub /\ DOMAIN r.o.markers_ = DOMAIN pl.markers_

(***************************************************************************)
(* Claim about the remaining tile-part length.                             *)
(***************************************************************************)
\* C39 (as claimed): while the markers of a tile-part header are read, the
\* remaining tile-part length never wraps below zero: a marker whose
\* marker_size + 2 exceeds it is rejected and not subtracted.
C39_RemainingLengthNeverWraps ==
  tilePartDataLength >= 0

\* C39 (as claimed, the rejection): no handler is run on a marker whose
\* subtraction has let the remaining length wrap
C39_WrapRejected ==
  tilePartDataLength < 0 => ~(last.ok /\ last.op \in {"COD", "COC", "QCD", "QCC"})

(***************************************************************************)
(* GrkRandomTileAccess::main: the tool decompresses four tiles of a file,  *)
(* each with a decompressor of its own.                                    *)
(***************************************************************************)
MaxGrid == 4
EXIT_SUCCESS == 0
EXIT_FAILURE == 1

\* (uint16_t)x of a 32-bit value in two's complement
U16(x) == x % 65536

\* tile[0..3] as main computes them from the header's tile grid
tile0(w, h) == 0
tile1(w, h) == U16(w - 1)
tile2(w, h) == U16(w * h - 1)
tile3(w, h) == U16(tile2(w, h) - w)
CornerTiles(w, h) == <<tile0(w, h), tile1(w, h), tile2(w, h), tile3(w, h)>>

NoTiles == <<0, 0, 0, 0>>

\* the file's tile grid is w x h; tried are the tiles test_tile has
\* decompressed with component data
NewRta(w, h) ==
  [pc |-> "main", i |-> 0, t_grid_width |-> w, t_grid_height |-> h,
   tile |-> NoTiles, tried |-> << >>, ret |-> EXIT_FAILURE]

InitRta ==
  /\ InitVars /\ state = {"MH"} /\ pc = "handlers" /\ m_curr_marker = 0
  /\ NoCaches_Markers
  /\ dwt = NoObject /\ tasks = NoObject /\ win = NoObject /\ mcc = NoObject
  /\ hdr = NoObject /\ ppt = NoObject
  /\ \E w \in 1..MaxGrid, h \in 1..MaxGrid : rta = NewRta(w, h)

RtaIdle ==
  UNCHANGED <<hvars, pvars, tlm, tlmOut, pl, plOut, sched, worker, block,
              dwt, tasks, win, mcc, hdr, ppt>>

\* main is entered: anything but one argument ends it
RtaMain(argc) ==
  /\ rta.pc = "main"
  /\ rta' = [rta EXCEPT !.pc = IF argc # 2 THEN "done" ELSE "loop"]
  /\ RtaIdle

\* grk_decompress_tile on a tile of the grid succeeds or fails (tileOk); on an
\* index outside the grid it fails
decompressTile(w, h, tile_index, tileOk) == tileOk /\ tile_index < w * h

\* test_tile: the tile is decompressed and every component has data
test_tile(w, h, tile_index, tileOk, dataOk) ==
  IF decompressTile(w, h, tile_index, tileOk) /\ dataOk
    THEN EXIT_SUCCESS ELSE EXIT_FAILURE

\* one pass of the loop: decompressor, header, the four indices, test_tile
RtaPass(initOk, headerOk, tileOk, dataOk) ==
  /\ rta.pc = "loop" /\ rta.i < 4
  /\ \E t \in {CornerTiles(rta.t_grid_width, rta.t_grid_height)} :
       rta' =
         IF ~initOk \/ ~headerOk THEN [rta EXCEPT !.pc = "done"]
         ELSE IF test_tile(rta.t_grid_width, rta.t_grid_height, t[rta.i + 1],
                           tileOk, dataOk) # EXIT_SUCCESS
           THEN [rta EXCEPT !.pc = "done", !.tile = t]
         ELSE [rta EXCEPT !.i = @ + 1, !.tile = t,
                          !.tried = Append(@, t[rta.i + 1])]
  /\ RtaIdle

\* after the fourth pass
RtaReturn ==
  /\ rta.pc = "loop" /\ rta.i = 4
  /\ rta' = [rta EXCEPT !.pc = "done", !.ret = EXIT_SUCCESS]
  /\ RtaIdle

NextRta ==
  \/ \E argc \in 1..3 : RtaMain(argc)
  \/ \E initOk \in BOOLEAN, headerOk \in BOOLEAN, tileOk \in BOOLEAN, dataOk \in BOOLEAN :
       RtaPass(initOk, headerOk, tileOk, dataOk)
  \/ RtaReturn

SpecRta == InitRta /\ [][NextRta]_vars

\* the corner tiles of a w x h grid
Corners(w, h) == {0, w - 1, w * (h - 1), w * h - 1}

\* C34 (as claimed): the four tile indices main computes are the corner tiles
\* 0, w-1, w*(h-1) and w*h-1 of the grid, each below w*h for every grid with
\* w >= 1 and h >= 1, and main returns EXIT_SUCCESS only when all four were
\* decompressed with component data.
C34_CornerTilesDecompressed ==
  /\ rta.tile # NoTiles =>
       /\ {rta.tile[k] : k \in 1..4} = Corners(rta.t_grid_width, rta.t_grid_height)
       /\ \A k \in 1..4 : rta.tile[k] < rta.t_grid_width * rta.t_grid_height
  /\ (rta.pc = "done" /\ rta.ret = EXIT_SUCCESS) =>
       {rta.tried[k] : k \in 1..Len(rta.tried)}
         = Corners(rta.t_grid_width, rta.t_grid_height)

\* C34 (what the code does keep): EXIT_SUCCESS is returned only after the four
\* computed indices were decompressed with component data, and the first three
\* are the corners 0, w-1 and w*h-1; the fourth is w*h-1-w, on 16 bits
C34_ReturnsSuccessAfterFourTiles ==
  /\ rta.tile # NoTiles =>
       /\ rta.tile[1] = 0
       /\ rta.tile[2] = rta.t_grid_width - 1
       /\ rta.tile[3] = rta.t_grid_width * rta.t_grid_height - 1
       /\ rta.tile[4] = U16(rta.t_grid_width * rta.t_grid_height - 1 - rta.t_grid_width)
  /\ (rta.pc = "done" /\ rta.ret = EXIT_SUCCESS) => rta.tried = rta.tile

(***************************************************************************)
(* CodeStreamDecompress::read_ppt and merge_ppt: the PPT marker segments   *)
(* of the current tile and the packet header buffer made of them.          *)
(***************************************************************************)
MaxZppt == 2
MaxPptPayload == 2

\* a pointer to bytes: nullptr, or an allocation and what it holds
NullData == [null |-> TRUE, bytes |-> << >>]
DataOf(bytes) == [null |-> FALSE, bytes |-> bytes]

\* a grk_ppx set to zero by grkCalloc or memset
ZeroPpx == [m_data |-> NullData, m_data_size |-> 0]

\* the fields of the TileCodingParams (and cp->ppm_marker) the two functions
\* use; ppt_markers[i] of the code is ppt_markers[i + 1] here, and
\* ppt_markers_null says ppt_markers is nullptr
NewPptTcp(ppm) ==
  [ppm_marker |-> ppm, ppt |-> FALSE, ppt_markers_null |-> TRUE,
   ppt_markers |-> << >>, ppt_markers_count |-> 0,
   ppt_buffer |-> NullData, ppt_len |-> 0,
   ppt_data |-> NullData, ppt_data_size |-> 0]

\* read_ppt's test of the slot of Z_ppt
pptAlreadyRead_Never(o, Z_ppt) == FALSE
pptAlreadyRead(o, Z_ppt) == ~o.ppt_markers[Z_ppt + 1].m_data.null

\* the array after "check allocation needed": newCount places, the old ones
\* kept and the new ones zero
pptGrow(o, newCount) ==
  [o EXCEPT !.ppt_markers_null = FALSE,
            !.ppt_markers = [i \in 1..newCount |->
                               IF i <= o.ppt_markers_count THEN o.ppt_markers[i]
                               ELSE ZeroPpx],
            !.ppt_markers_count = newCount]

\* the copy of the payload into the slot of Z_ppt
pptStore(o, Z_ppt, headerData, header_size, dataOk) ==
  IF pptAlreadyRead(o, Z_ppt) THEN [tcp |-> o, rc |-> FALSE]
  ELSE IF ~dataOk THEN [tcp |-> o, rc |-> FALSE]
  ELSE [tcp |-> [o EXCEPT !.ppt_markers[Z_ppt + 1] =
                   [m_data |-> DataOf(SubSeq(headerData, 1, header_size)),
                    m_data_size |-> header_size]],
        rc |-> TRUE]

\* read_ppt; arrayOk and dataOk are the outcomes of grkCalloc / grkRealloc
\* and of grkMalloc
read_ppt(o, headerData, header_size, arrayOk, dataOk) ==
  IF header_size < 2 THEN [tcp |-> o, rc |-> FALSE]
  ELSE IF o.ppm_marker THEN [tcp |-> o, rc |-> FALSE]
  ELSE LET t == [o EXCEPT !.ppt = TRUE]
           Z_ppt == headerData[1]
           rest == Tail(headerData)
       IN IF t.ppt_markers_null \/ t.ppt_markers_count <= Z_ppt
            THEN IF ~arrayOk THEN [tcp |-> t, rc |-> FALSE]
                 ELSE pptStore(pptGrow(t, Z_ppt + 1), Z_ppt, rest, header_size - 1, dataOk)
            ELSE pptStore(t, Z_ppt, rest, header_size - 1, dataOk)

RECURSIVE pptSize(_, _)
\* the sum of m_data_size of the first n places (at most 256 places of less
\* than 65536 bytes: the 32 bits do not overflow)
pptSize(markers, n) ==
  IF n = 0 THEN 0 ELSE pptSize(markers, n - 1) + markers[n].m_data_size

RECURSIVE pptCopy(_, _)
\* the bytes copied from the first n places, in the order of the places
pptCopy(markers, n) ==
  IF n = 0 THEN << >>
  ELSE IF ~markers[n].m_data.null
    THEN pptCopy(markers, n - 1) \o SubSeq(markers[n].m_data.bytes, 1, markers[n].m_data_size)
    ELSE pptCopy(markers, n - 1)

merge_ppt(o) ==
  IF ~o.ppt THEN [tcp |-> o, rc |-> TRUE]
  ELSE IF ~o.ppt_buffer.null THEN [tcp |-> o, rc |-> FALSE]
  ELSE LET ppt_data_size == pptSize(o.ppt_markers, o.ppt_markers_count)
           buffer == DataOf(pptCopy(o.ppt_markers, o.ppt_markers_count))
       IN [tcp |-> [o EXCEPT !.ppt_buffer = buffer, !.ppt_len = ppt_data_size,
                             !.ppt_markers_count = 0, !.ppt_markers = << >>,
                             !.ppt_markers_null = TRUE,
                             !.ppt_data = buffer, !.ppt_data_size = ppt_data_size],
           rc |-> TRUE]

\* PPT segments: Zppt and up to MaxPptPayload bytes of packet headers, and the
\* segment too short to hold both
PptBytes == {10, 11}
PptPayloads ==
  UNION {[1..n -> PptBytes] : n \in 0..MaxPptPayload}
PptSegments == {<<z>> \o p : z \in 0..MaxZppt, p \in PptPayloads} \cup {<< >>}

\* ppt.read lists the segments read_ppt has accepted, in the order of arrival
InitPpt ==
  /\ InitVars /\ state = {"TPH"} /\ pc = "handlers" /\ m_curr_marker = 0
  /\ NoCaches_Markers
  /\ dwt = NoObject /\ tasks = NoObject /\ win = NoObject /\ mcc = NoObject
  /\ hdr = NoObject /\ rta = NoObject
  /\ \E ppm \in BOOLEAN :
       ppt = [tcp |-> NewPptTcp(ppm), rc |-> TRUE, op |-> "none",
              headerData |-> << >>, read |-> << >>, merged |-> FALSE]

PptIdle ==
  UNCHANGED <<hvars, pvars, tlm, tlmOut, pl, plOut, sched, worker, block,
              dwt, tasks, win, mcc, hdr, rta>>

\* a PPT marker segment of the tile-part header; a failure ends the reading
PptMarker(headerData, arrayOk, dataOk) ==
  /\ ppt.rc /\ ~ppt.merged
  /\ LET r == read_ppt(ppt.tcp, headerData, Len(headerData), arrayOk, dataOk)
     IN ppt' = [ppt EXCEPT !.tcp = r.tcp, !.rc = r.rc, !.op = "read_ppt",
                           !.headerData = headerData,
                           !.read = IF r.rc THEN Append(@, headerData) ELSE @]
  /\ PptIdle

\* the end of the tile's header markers
PptMerge ==
  /\ ppt.rc /\ ~ppt.merged
  /\ LET r == merge_ppt(ppt.tcp)
     IN ppt' = [ppt EXCEPT !.tcp = r.tcp, !.rc = r.rc, !.op = "merge_ppt",
                           !.merged = TRUE]
  /\ PptIdle

NextPpt ==
  \/ \E headerData \in PptSegments, arrayOk \in BOOLEAN, dataOk \in BOOLEAN :
       PptMarker(headerData, arrayOk, dataOk)
  \/ PptMerge

SpecPpt == InitPpt /\ [][NextPpt]_vars

RECURSIVE PayloadsUpTo(_, _)
\* the payloads of the accepted segments with Zppt <= z, by increasing Zppt
PayloadsUpTo(segs, z) ==
  IF z < 0 THEN << >>
  ELSE LET own == {i \in 1..Len(segs) : segs[i][1] = z}
       IN PayloadsUpTo(segs, z - 1)
            \o (IF own = {} THEN << >> ELSE Tail(segs[CHOOSE i \in own : TRUE]))

RECURSIVE PayloadSizes(_, _)
PayloadSizes(segs, n) ==
  IF n = 0 THEN 0 ELSE PayloadSizes(segs, n - 1) + Len(segs[n]) - 1

\* C40: whatever the order in which PPT segments with distinct Zppt arrive,
\* merge_ppt leaves a buffer that is their payloads by increasing Zppt, with
\* ppt_len the sum of the payload sizes and no marker data left; a segment
\* whose Zppt was read before, or that comes after a PPM marker, is not
\* accepted.
C40_MergedInZpptOrder ==
  /\ (ppt.op = "merge_ppt" /\ ppt.rc) =>
       /\ ppt.tcp.ppt_buffer.bytes = PayloadsUpTo(ppt.read, MaxZppt + 1)
       /\ ppt.tcp.ppt_len = PayloadSizes(ppt.read, Len(ppt.read))
       /\ ppt.tcp.ppt_markers_null /\ ppt.tcp.ppt_markers_count = 0
       /\ ppt.tcp.ppt_markers = << >>
       /\ ppt.read # << >> => ~ppt.tcp.ppt_buffer.null
  /\ \A i, j \in 1..Len(ppt.read) : ppt.read[i][1] = ppt.read[j][1] => i = j
  /\ ppt.tcp.ppm_marker => ppt.read = << >>
  /\ (ppt.op = "read_ppt" /\ ppt.rc) =>
       /\ ppt.read # << >> /\ ppt.read[Len(ppt.read)] = ppt.headerData
       /\ Len(ppt.headerData) >= 2

\* segments that arrived against the order of their Zppt and were merged
C40_Witness ==
  /\ ppt.op = "merge_ppt" /\ ppt.rc
  /\ Len(ppt.read) >= 2
  /\ ppt.read[1][1] > ppt.read[2][1]
  /\ Len(ppt.tcp.ppt_buffer.bytes) >= 3


=============================================================================
